---- MODULE Spec2Model ----
(***************************************************************************)
(* Verification model of finding_tickers (backend):                        *)
(*   app/utils/rate_limiter.py     TokenBucket, RateLimiter, APIRateLimiter*)
(*   app/services/finnhub_service.py     FinnhubService.lookup_symbol      *)
(*   app/services/enrichment_service.py  EnrichmentService                 *)
(*   app/utils/matcher.py          NLPMatcher                              *)
(*                                                                         *)
(* Eight specifications share the variables:                               *)
(*   Spec        workers calling APIRateLimiter.execute_with_rate_limit on *)
(*               the one shared "api" bucket, under a discrete clock;      *)
(*   SpecRetry   the same, with a tally of the failures of func;           *)
(*   SpecEnrich  EnrichmentService.enrich_csv_file driving process_row /   *)
(*               get_symbol / lookup_symbol tasks page by page;            *)
(*   SpecPool    the same on hosts whose worker pool has 1 or 2 threads;   *)
(*   SpecNames   the same on csv files with empty Name fields;             *)
(*   SpecSingle  EnrichmentService.enrich_single_company for one name;     *)
(*   SpecBucket  the methods of one TokenBucket, a statement per step;     *)
(*   SpecSingleton  concurrent constructions of FinnhubService.            *)
(*                                                                         *)
(* Units of the limiter model.  A bucket TokenBucket(capacity, refill_rate)*)
(* is measured in token units of 1/TicksPerToken token and the clock in    *)
(* ticks of 1/(TicksPerToken * refill_rate) seconds, so that one tick      *)
(* refills exactly one unit (refill_rate == 1 unit per tick) and every     *)
(* clock reading time.time() is a whole number of ticks.                   *)
(***************************************************************************)
EXTENDS Integers, Sequences, FiniteSets, TLC

\* ------------------------------------------------------------------ bounds
MaxCapacity == 2
TicksPerToken == 2
MaxTime == 5

\* ------------------------------------------------------------------ state
VARIABLES
    capacity,     \* TokenBucket.capacity (tokens) = requests_per_minute
    tokens,       \* TokenBucket.tokens, in units of 1/TicksPerToken token
    last_refill,  \* TokenBucket.last_refill, in ticks
    now,          \* the clock time.time(), in ticks
    rl_lock,      \* holder of RateLimiter._lock (0 = free)
    pc,           \* position of each worker in execute_with_rate_limit
    attempt,      \* loop variable `attempt` of each worker
    wait_time,    \* local `wait_time` of each worker (Unbound until assigned)
    wake,         \* earliest tick at which a sleeping worker resumes
    slept,        \* seconds asked of the last backoff time.sleep (0 = none)
    calls,        \* calls of func made by the current invocation
    consumed,     \* tokens consumed by the current invocation
    exc,          \* exception an invocation ended with ("none" if it returned)
    other_failures, \* history: calls of func of each worker that raised a
                    \* non-rate-limit error (Untracked where no tally is kept)
    callTimes     \* clock readings at which calls of func started, in order

VARIABLES
    hasColumns,     \* whether the csv has both a Name and a Symbol column
    max_workers,    \* ThreadPoolExecutor(max_workers=self.threads): the pool size
    df,             \* the DataFrame: a sequence of rows [Name, Symbol]
    epc,            \* position of enrich_csv_file
    page,           \* loop variable `page`
    cursor,         \* row of page_df the submit loop looks at next
    futures,        \* rows submitted for the current page, in order
    tpc,            \* state of the task of each row
    attempt_num,    \* lookup_symbol: loop variable of each task
    attempts,       \* lookup_symbol: the attempt trace of each task
    lookups,        \* calls of _make_api_call made by each task
    lres,           \* how lookup_symbol ended for each task
    first_result,   \* lookup_symbol: first_result of the match of each task
    tres,           \* the symbol process_row returned for each task
    merged,         \* rows whose future the collect loop has merged
    rows_processed, \* enrich_csv_file: rows_processed
    rows_updated,   \* enrich_csv_file: rows_updated
    output,         \* the file at output_csv
    flushes,        \* completed df.to_csv calls
    result,         \* the EnrichmentResult returned
    response        \* the SymbolResponse enrich_single_company returned

enrVars == <<hasColumns, max_workers, df, epc, page, cursor, futures, tpc, attempt_num,
             attempts, lookups, lres, tres, merged, rows_processed,
             rows_updated, output, flushes, result, response,
             first_result>>

\* TokenBucket taken one statement at a time
VARIABLES
    bucket_lock,    \* TokenBucket._lock: the worker holding it, 0 when free
    tokens_arg,     \* the `tokens` argument of each worker's call in progress
    mark            \* history: tokens and last_refill as a marked refill or
                    \* the last successful consume left them

bktVars == <<bucket_lock, tokens_arg, mark>>

\* FinnhubService() taken one statement at a time
VARIABLES
    instance,       \* FinnhubService._instance: the object, 0 for None
    client,         \* _client of each object made, 0 for None
    rate_limiter,   \* rate_limiter of each object made, 0 while unset
    made,           \* objects, clients and rate limiters made so far
    ctor,           \* each thread's position in FinnhubService()
    yielded         \* the objects FinnhubService() has returned

ctorVars == <<instance, client, rate_limiter, made, ctor, yielded>>

\* NLPMatcher.suggest_correction called on its own
VARIABLES
    word_arg,       \* the argument `word`
    corrected       \* the value returned, NotReturned while the call runs

nlpVars == <<word_arg, corrected>>

\* RateLimiter taken one lock and one statement of _refill at a time
VARIABLES
    spc,            \* position of the thread that calls get_bucket_status
    status_calls,   \* get_bucket_status calls made so far
    rf              \* _refill in progress in each thread: the statement it is
                    \* at and its locals

stVars == <<spc, status_calls, rf>>

limVars == <<capacity, tokens, last_refill, now, rl_lock, pc, attempt,
             wait_time, wake, slept, calls, consumed, exc, other_failures, callTimes>>

vars == <<limVars, enrVars, bktVars, ctorVars, nlpVars, stVars>>

Unbound == -1

Min(a, b) == IF a <= b THEN a ELSE b
Max(a, b) == IF a >= b THEN a ELSE b

\* ---------------------------------------------------------- configuration
\* EnrichmentService.__init__: self.threads = min(10, os.cpu_count() or 4),
\* the size of the worker pool whose threads call the limiter; its value on
\* a host with two CPUs
threads == 2

\* APIRateLimiter.__init__
retry_attempts == 3
retry_delay == 1
refill_rate == 1

Workers == 1..threads

\* units of one token, and the capacity in units
TokenUnits(n) == n * TicksPerToken
CapacityUnits == TokenUnits(capacity)

\* seconds -> whole ticks a time.sleep(seconds) lasts at least:
\* refill_rate is capacity/60 tokens per second (APIRateLimiter.__init__),
\* so one second is capacity * TicksPerToken / 60 ticks.
SleepTicks(seconds) == (seconds * capacity * TicksPerToken) \div 60

\* ------------------------------------------------------------ TokenBucket
\* a refill that forgets the cap
RefilledUncapped(tok, last, t) == tok + (t - last) * refill_rate

\* a refill that credits the time since the bucket was made
RefilledFromStart(tok, last, t) == Min(CapacityUnits, tok + t * refill_rate)

\* _refill: tokens = min(capacity, tokens + elapsed * refill_rate)
Refilled(tok, last, t) == Min(CapacityUnits, tok + (t - last) * refill_rate)

\* a consume that grants whether or not the tokens are there
CanConsumeAlways(tok, last, t, n) == TRUE

\* consume(n): `if self.tokens >= tokens` after the refill at t
CanConsume(tok, last, t, n) == Refilled(tok, last, t) >= TokenUnits(n)

\* a consume that grants the tokens without taking them
AfterConsumeFree(tok, last, t, n) == Refilled(tok, last, t)

\* a consume that charges the bucket whether or not it grants
AfterConsumeAlways(tok, last, t, n) == Refilled(tok, last, t) - TokenUnits(n)

\* consume(n): the token count left after a refill at t, n tokens taken
AfterConsume(tok, last, t, n) ==
    IF CanConsume(tok, last, t, n)
    THEN Refilled(tok, last, t) - TokenUnits(n)
    ELSE Refilled(tok, last, t)

\* a wait time that is computed from the tokens as they were before the refill
get_wait_time_stale(tok, last, t, n) ==
    IF tok >= TokenUnits(n) THEN 0 ELSE (TokenUnits(n) - tok) \div refill_rate

\* get_wait_time(n): 0 when available, else (n - tokens) / refill_rate
get_wait_time(tok, last, t, n) ==
    IF Refilled(tok, last, t) >= TokenUnits(n)
    THEN 0
    ELSE (TokenUnits(n) - Refilled(tok, last, t)) \div refill_rate

\* ================================================================ strings
\* A str is a sequence of one-character strings.
UpperLetters == <<"A","B","C","D","E","F","G","H","I","J","K","L","M",
                  "N","O","P","Q","R","S","T","U","V","W","X","Y","Z">>
LowerLetters == <<"a","b","c","d","e","f","g","h","i","j","k","l","m",
                  "n","o","p","q","r","s","t","u","v","w","x","y","z">>

IndexIn(c, letters) ==
    IF \E i \in 1..Len(letters) : letters[i] = c
    THEN CHOOSE i \in 1..Len(letters) : letters[i] = c
    ELSE 0

\* re class [a-zA-Z]
IsAlpha(c) == IndexIn(c, UpperLetters) > 0 \/ IndexIn(c, LowerLetters) > 0
IsSpace(c) == c = " "

\* str.lower()
LowerChar(c) ==
    IF IndexIn(c, UpperLetters) > 0 THEN LowerLetters[IndexIn(c, UpperLetters)] ELSE c
Lower(s) == [i \in 1..Len(s) |-> LowerChar(s[i])]

\* str.lstrip(), str.rstrip() and str.strip()
LStrip(s) ==
    IF \A i \in 1..Len(s) : IsSpace(s[i]) THEN <<>>
    ELSE SubSeq(s, CHOOSE i \in 1..Len(s) :
                     ~IsSpace(s[i]) /\ \A j \in 1..(i - 1) : IsSpace(s[j]), Len(s))
RStrip(s) ==
    IF \A i \in 1..Len(s) : IsSpace(s[i]) THEN <<>>
    ELSE SubSeq(s, 1, CHOOSE i \in 1..Len(s) :
                        ~IsSpace(s[i]) /\ \A j \in (i + 1)..Len(s) : IsSpace(s[j]))
Strip(s) == RStrip(LStrip(s))

\* s.split(" ")[0]: s up to its first blank
FirstWord(s) ==
    IF \E i \in 1..Len(s) : IsSpace(s[i])
    THEN SubSeq(s, 1, (CHOOSE i \in 1..Len(s) :
                         IsSpace(s[i]) /\ \A j \in 1..(i - 1) : ~IsSpace(s[j])) - 1)
    ELSE s

\* re.sub(r'[^a-zA-Z]', '', s)
LettersOnly(s) == SelectSeq(s, IsAlpha)

\* s < t for lower-case words (tuple comparison inside heapq.nlargest)
StrLess(s, t) ==
    \E i \in 1..Len(t) :
       /\ \A j \in 1..(i - 1) : j <= Len(s) /\ s[j] = t[j]
       /\ \/ i > Len(s)
          \/ IndexIn(s[i], LowerLetters) < IndexIn(t[i], LowerLetters)

\* ============================================================= NLPMatcher
COMMON_COMPANY_WORDS == <<
    <<"a","p","p","l","e">>, <<"m","i","c","r","o","s","o","f","t">>,
    <<"g","o","o","g","l","e">>, <<"a","m","a","z","o","n">>,
    <<"t","e","s","l","a">>, <<"m","e","t","a">>, <<"n","v","i","d","i","a">>,
    <<"b","e","r","k","s","h","i","r","e">>, <<"h","a","t","h","a","w","a","y">>,
    <<"j","o","h","n","s","o","n">>, <<"j","p","m","o","r","g","a","n">>,
    <<"c","h","a","s","e">>, <<"v","i","s","a">>,
    <<"w","a","l","m","a","r","t">>, <<"m","a","s","t","e","r","c","a","r","d">>,
    <<"h","o","m","e">>, <<"d","e","p","o","t">>, <<"d","i","s","n","e","y">>,
    <<"n","i","k","e">>,
    <<"c","o","c","a">>, <<"c","o","l","a">>, <<"p","e","p","s","i","c","o">>,
    <<"i","n","t","e","l">>, <<"c","i","s","c","o">>, <<"o","r","a","c","l","e">>,
    <<"i","b","m">>,
    <<"a","d","o","b","e">>, <<"s","a","l","e","s","f","o","r","c","e">>,
    <<"n","e","t","f","l","i","x">>, <<"s","p","o","t","i","f","y">>,
    <<"z","o","o","m">>, <<"s","n","a","p">>,
    <<"t","w","i","t","t","e","r">>, <<"f","a","c","e","b","o","o","k">>,
    <<"a","l","p","h","a","b","e","t">>, <<"v","e","r","i","z","o","n">>,
    <<"a","t","t">>, <<"c","o","m","c","a","s","t">>,
    <<"p","f","i","z","e","r">>, <<"m","e","r","c","k">>, <<"u","n","i","t","e","d">>,
    <<"h","e","a","l","t","h">>, <<"a","n","t","h","e","m">>, <<"c","i","g","n","a">>,
    <<"g","o","l","d","m","a","n">>, <<"s","a","c","h","s">>, <<"m","o","r","g","a","n">>,
    <<"s","t","a","n","l","e","y">>, <<"b","a","n","k">>, <<"a","m","e","r","i","c","a">>,
    <<"w","e","l","l","s">>, <<"f","a","r","g","o">>, <<"c","i","t","i","g","r","o","u","p">>,
    <<"e","x","x","o","n">>, <<"m","o","b","i","l">>, <<"c","h","e","v","r","o","n">>
>>

\* Python values that are not always a str: a str, None, the float NaN of an
\* empty csv cell, and the tuple (symbol, description)
Str(s) == [type |-> "str", val |-> s, desc |-> <<>>]
None == [type |-> "None", val |-> <<>>, desc |-> <<>>]
NaN == [type |-> "NaN", val |-> <<>>, desc |-> <<>>]
Tuple(sym, d) == [type |-> "tuple", val |-> sym, desc |-> d]

\* the value of a one-element set: TheOnly({e(v) : v \in {x}}) is e(x) with
\* x computed once
TheOnly(S) == CHOOSE x \in S : TRUE

\* length of the common run of a from i and b from j
RunLen(a, i, ahi, b, j, bhi) ==
    LET room == Min(ahi - i + 1, bhi - j + 1)
        runs == {k \in 0..room : \A d \in 0..(k - 1) : a[i + d] = b[j + d]}
    IN  CHOOSE k \in runs : \A l \in runs : l <= k

\* block p is the one find_longest_match prefers to q: the longer, then the
\* one starting earlier in a, then the one starting earlier in b
BetterBlock(p, q) ==
    \/ p[3] > q[3]
    \/ p[3] = q[3] /\ (p[1] < q[1] \/ (p[1] = q[1] /\ p[2] <= q[2]))

\* SequenceMatcher.find_longest_match(alo, ahi, blo, bhi) without junk: the
\* longest block a[i..i+k-1] = b[j..j+k-1] as <<i, j, k>>, <<alo, blo, 0>>
\* when nothing matches
find_longest_match(a, alo, ahi, b, blo, bhi) ==
    TheOnly({IF blocks = {} THEN <<alo, blo, 0>>
             ELSE CHOOSE p \in blocks : \A q \in blocks : BetterBlock(p, q) :
             blocks \in {{<<i, j, RunLen(a, i, ahi, b, j, bhi)>> :
                            i \in alo..ahi, j \in blo..bhi}}})

\* SequenceMatcher.get_matching_blocks: total size of the matching blocks
RECURSIVE MatchSize(_, _, _, _, _, _)
MatchSize(a, alo, ahi, b, blo, bhi) ==
    TheOnly({IF m[3] = 0 THEN 0
             ELSE m[3]
                  + MatchSize(a, alo, m[1] - 1, b, blo, m[2] - 1)
                  + MatchSize(a, m[1] + m[3], ahi, b, m[2] + m[3], bhi) :
             m \in {find_longest_match(a, alo, ahi, b, blo, bhi)}})

\* SequenceMatcher(None, a, b).ratio() = 2.0 * matches / (len(a) + len(b)),
\* as the pair <<numerator, denominator>>
Ratio(a, b) ==
    TheOnly({<<2 * MatchSize(x, 1, Len(x), y, 1, Len(y)), Len(x) + Len(y)>> :
             x \in {a}, y \in {b}})

\* a cutoff of 0.5
MeetsCutoffHalf(r) == r[2] > 0 /\ 10 * r[1] >= 5 * r[2]

\* ratio >= min_similarity, with min_similarity = 0.6 = 6/10
MeetsCutoff(r) == r[2] > 0 /\ 10 * r[1] >= 6 * r[2]

\* r1 < r2 for two ratios
RatioLess(r1, r2) == r1[1] * r2[2] < r2[1] * r1[2]

\* (ratio, x) < (ratio, x) as heapq.nlargest compares the scored candidates
ScoredLess(s, t) ==
    \/ RatioLess(s[1], t[1])
    \/ ~RatioLess(t[1], s[1]) /\ StrLess(s[2], t[2])

\* difflib.get_close_matches(word, possibilities, n=1, cutoff=0.6): the
\* candidates x with SequenceMatcher(a=x, b=word).ratio() >= cutoff, and of
\* them the largest (ratio, x) pair, as heapq.nlargest(1, ...) picks it
get_close_matches(word, possibilities) ==
    TheOnly({IF close = {} THEN <<>>
             ELSE <<(CHOOSE s \in close : \A t \in close : ~ScoredLess(s, t))[2]>> :
             close \in {{s \in {<<Ratio(possibilities[k], w), possibilities[k]>> :
                                  k \in 1..Len(possibilities), w \in {word}} :
                           MeetsCutoff(s[1])}}})

\* NLPMatcher.find_best_match(word, dictionary, min_similarity=0.6)
find_best_match(word, dictionary) ==
    IF word = <<>> \/ Strip(word) = <<>> THEN None
    ELSE LET lowered == [k \in 1..Len(dictionary) |-> Lower(dictionary[k])]
             matches == get_close_matches(Strip(Lower(word)), lowered)
         IN  IF matches # <<>>
             THEN Str(dictionary[CHOOSE k \in 1..Len(dictionary) :
                                    /\ lowered[k] = matches[1]
                                    /\ \A l \in 1..(k - 1) : lowered[l] # matches[1]])
             ELSE None

\* NLPMatcher.suggest_correction(word)
suggest_correction(word) ==
    IF word = <<>> \/ Strip(word) = <<>> THEN None
    ELSE IF LettersOnly(Strip(word)) = <<>> THEN None
    ELSE find_best_match(LettersOnly(Strip(word)), COMMON_COMPANY_WORDS)

\* NLPMatcher.get_corrected_word(original_word)
get_corrected_word(original_word) == suggest_correction(original_word)

\* ------------------------------------------------------------------- Init
\* the thread that calls get_bucket_status, and all threads using the limiter
StatusThread == threads + 1
Threads == Workers \cup {StatusThread}

\* no _refill is in progress in a thread
NoRefill == [at |-> "off", now |-> 0, last |-> 0, tok |-> 0]

\* get_bucket_status is not being called
StatusIdle ==
    /\ spc = "idle"
    /\ status_calls = 0
    /\ rf = [t \in Threads |-> NoRefill]

\* value of `corrected` before suggest_correction has returned
NotReturned == [type |-> "unset", val |-> <<>>, desc |-> <<>>]

\* suggest_correction is not being called on its own
MatcherIdle ==
    /\ word_arg = <<>>
    /\ corrected = NotReturned

\* FinnhubService has not been constructed yet: the class attributes
\* _instance = None and _client = None
CtorIdle ==
    /\ instance = 0
    /\ client = <<>>
    /\ rate_limiter = <<>>
    /\ made = [objects |-> 0, clients |-> 0, limiters |-> 0]
    /\ ctor = [t \in Workers |-> [pc |-> "idle", self |-> 0, n |-> 0]]
    /\ yielded = {}

\* no call of a TokenBucket method is in progress
BucketIdle ==
    /\ bucket_lock = 0
    /\ tokens_arg = [w \in Workers |-> 0]
    /\ mark = [tokens |-> tokens, time |-> last_refill]

\* value of other_failures for a worker whose failures are not tallied
Untracked == -1

\* the workers are about to call execute_with_rate_limit; `tally` is the
\* initial value of the history other_failures
InitCalls(tally) ==
    /\ capacity \in 1..MaxCapacity
    /\ tokens = TokenUnits(capacity)
    /\ last_refill = 0
    /\ now = 0
    /\ rl_lock = 0
    /\ pc = [w \in Workers |-> "wait"]
    /\ attempt = [w \in Workers |-> 0]
    /\ wait_time = [w \in Workers |-> Unbound]
    /\ wake = [w \in Workers |-> 0]
    /\ slept = [w \in Workers |-> 0]
    /\ calls = [w \in Workers |-> 0]
    /\ consumed = [w \in Workers |-> 0]
    /\ exc = [w \in Workers |-> "none"]
    /\ other_failures = tally
    /\ callTimes = <<>>
    /\ BucketIdle
    /\ CtorIdle
    /\ StatusIdle

\* no history of failures is kept
InitLimiter == InitCalls([w \in Workers |-> Untracked])

\* the workers whose non-rate-limit failures are tallied: one of the two, the
\* workers being alike
Tallied == {1}

InitTallied == InitCalls([w \in Workers |-> IF w \in Tallied THEN 0 ELSE Untracked])


\* ---------------------------------------------------------------- actions
\* the clock advances; any thread may be delayed for any time
Tick ==
    /\ UNCHANGED <<enrVars, bktVars, ctorVars, nlpVars, stVars>>
    /\ now < MaxTime
    /\ now' = now + 1
    /\ UNCHANGED <<capacity, tokens, last_refill, rl_lock, pc, attempt,
                   wait_time, wake, slept, calls, consumed, exc, other_failures, callTimes>>

\* RateLimiter.wait_if_needed("api", 1): under RateLimiter._lock, refill and
\* read the wait time; a positive wait is slept with the lock still held
WaitIfNeeded(w) ==
    /\ UNCHANGED <<enrVars, bktVars, ctorVars, nlpVars, stVars>>
    /\ pc[w] = "wait"
    /\ rl_lock = 0
    /\ tokens' = Refilled(tokens, last_refill, now)
    /\ last_refill' = now
    /\ LET wt == get_wait_time(tokens, last_refill, now, 1) IN
         IF wt > 0
         THEN /\ rl_lock' = w
              /\ wake' = [wake EXCEPT ![w] = now + wt]
              /\ pc' = [pc EXCEPT ![w] = "wait_sleep"]
         ELSE /\ rl_lock' = 0
              /\ wake' = wake
              /\ pc' = [pc EXCEPT ![w] = "consume"]
    /\ UNCHANGED <<capacity, now, attempt, wait_time, slept, calls, consumed,
                   exc, other_failures, callTimes>>

\* a sleep inside wait_if_needed whose end leaves the lock held
WaitWakeKeepsLock(w) ==
    /\ UNCHANGED <<enrVars, bktVars, ctorVars, nlpVars, stVars>>
    /\ pc[w] = "wait_sleep"
    /\ now >= wake[w]
    /\ wake' = [wake EXCEPT ![w] = 0]
    /\ pc' = [pc EXCEPT ![w] = "consume"]
    /\ UNCHANGED <<capacity, tokens, last_refill, now, rl_lock, attempt, wait_time,
                   slept, calls, consumed, exc, other_failures, callTimes>>

\* the sleep inside wait_if_needed ends: the lock is released
WaitWake(w) ==
    /\ UNCHANGED <<enrVars, bktVars, ctorVars, nlpVars, stVars>>
    /\ pc[w] = "wait_sleep"
    /\ now >= wake[w]
    /\ rl_lock' = 0
    /\ wake' = [wake EXCEPT ![w] = 0]
    /\ pc' = [pc EXCEPT ![w] = "consume"]
    /\ UNCHANGED <<capacity, tokens, last_refill, now, attempt, wait_time,
                   slept, calls, consumed, exc, other_failures, callTimes>>

\* exception raised by a failed consume on the final attempt:
\* APIRateLimitException(retry_after=int(wait_time)), or the UnboundLocalError
\* of reading wait_time when no earlier attempt assigned it
ConsumeFailure(wt) == IF wt = Unbound THEN "UnboundLocalError" ELSE "rate_limit"

\* a retry test that is off by one
HasRetryOffByOne(a) == a < retry_attempts

\* a retry test that lets one more attempt follow
HasRetryOneMore(a) == a <= retry_attempts - 1

\* whether `attempt < self.retry_attempts - 1`
HasRetry(a) == a < retry_attempts - 1

\* tokens a consume took from the bucket: the count after the refill less the
\* count it left
TokensTaken(before, after) == (before - after) \div TicksPerToken

\* RateLimiter.consume("api", 1) and what follows it in the same attempt:
\* on success func is called at once; on failure either fetch the wait time
\* (non-final attempt) or raise (final attempt)
Consume(w) ==
    /\ UNCHANGED <<enrVars, bktVars, ctorVars, nlpVars, stVars>>
    /\ pc[w] = "consume"
    /\ rl_lock = 0
    /\ tokens' = AfterConsume(tokens, last_refill, now, 1)
    /\ last_refill' = now
    /\ consumed' = [consumed EXCEPT ![w] = @ + TokensTaken(Refilled(tokens, last_refill, now), tokens')]
    /\ IF CanConsume(tokens, last_refill, now, 1)
       THEN /\ calls' = [calls EXCEPT ![w] = @ + 1]
            /\ callTimes' = Append(callTimes, now)
            /\ pc' = [pc EXCEPT ![w] = "in_call"]
            /\ exc' = exc
       ELSE /\ UNCHANGED <<calls, callTimes>>
            /\ IF HasRetry(attempt[w])
               THEN /\ pc' = [pc EXCEPT ![w] = "hit_wait"]
                    /\ exc' = exc
               ELSE /\ pc' = [pc EXCEPT ![w] = "raised"]
                    /\ exc' = [exc EXCEPT ![w] = ConsumeFailure(wait_time[w])]
    /\ UNCHANGED <<capacity, now, rl_lock, attempt, wait_time, wake, slept,
                   other_failures>>

\* wait_time = self.rate_limiter._buckets["api"].get_wait_time(1), taken under
\* the bucket lock only, then time.sleep(wait_time)
HitWait(w) ==
    /\ UNCHANGED <<enrVars, bktVars, ctorVars, nlpVars, stVars>>
    /\ pc[w] = "hit_wait"
    /\ tokens' = Refilled(tokens, last_refill, now)
    /\ last_refill' = now
    /\ wait_time' = [wait_time EXCEPT ![w] = get_wait_time(tokens, last_refill, now, 1)]
    /\ wake' = [wake EXCEPT ![w] = now + get_wait_time(tokens, last_refill, now, 1)]
    /\ pc' = [pc EXCEPT ![w] = "hit_sleep"]
    /\ UNCHANGED <<capacity, now, rl_lock, attempt, slept, calls, consumed,
                   exc, other_failures, callTimes>>

\* a `continue` that starts the same attempt again
NextAttemptSame(a) == a

\* the next loop index after `continue`
NextAttempt(a) == a + 1

\* the sleep after a failed consume ends: continue with the next attempt
HitWake(w) ==
    /\ UNCHANGED <<enrVars, bktVars, ctorVars, nlpVars, stVars>>
    /\ pc[w] = "hit_sleep"
    /\ now >= wake[w]
    /\ attempt' = [attempt EXCEPT ![w] = NextAttempt(@)]
    /\ pc' = [pc EXCEPT ![w] = "wait"]
    /\ wake' = [wake EXCEPT ![w] = 0]
    /\ slept' = [slept EXCEPT ![w] = 0]
    /\ UNCHANGED <<capacity, tokens, last_refill, now, rl_lock, wait_time,
                   calls, consumed, exc, other_failures, callTimes>>

\* func returns: the invocation returns its result
CallReturns(w) ==
    /\ UNCHANGED <<enrVars, bktVars, ctorVars, nlpVars, stVars>>
    /\ pc[w] = "in_call"
    /\ pc' = [pc EXCEPT ![w] = "returned"]
    /\ UNCHANGED <<capacity, tokens, last_refill, now, rl_lock, attempt,
                   wait_time, wake, slept, calls, consumed, exc, other_failures, callTimes>>

\* the exhaustion error of the statement after the loop, raised in place of
\* the error func raised
ReraisedAsExhaustion(e) == "rate_limit"

\* the bare `raise` of the final attempt's except clause: the exception being
\* handled leaves execute_with_rate_limit unchanged
Reraised(e) == e

\* a backoff that doubles after every failure, whatever its kind
BackoffSecondsAlwaysDoubling(e, a) == retry_delay * (2 ^ a)

\* a backoff that never grows
BackoffSecondsFlat(e, a) == retry_delay

\* seconds slept before the next attempt after func raised e on attempt a:
\* retry_delay * 2**attempt for APIRateLimitException, retry_delay otherwise
BackoffSeconds(e, a) ==
    IF e = "rate_limit" THEN retry_delay * (2 ^ a) ELSE retry_delay

\* 1 when the `except Exception` clause caught e (logger.error "API call
\* failed on attempt ..."), 0 when the `except APIRateLimitException` clause did
OtherFailure(e) == IF e = "rate_limit" THEN 0 ELSE 1

\* func raises e and an except clause catches it: sleep and continue on a
\* non-final attempt, re-raise on the final one
CallRaises(w, e) ==
    /\ UNCHANGED <<enrVars, bktVars, ctorVars, nlpVars, stVars>>
    /\ pc[w] = "in_call"
    /\ IF HasRetry(attempt[w])
       THEN /\ pc' = [pc EXCEPT ![w] = "backoff"]
            /\ slept' = [slept EXCEPT ![w] = BackoffSeconds(e, attempt[w])]
            /\ wake' = [wake EXCEPT ![w] = now + SleepTicks(BackoffSeconds(e, attempt[w]))]
            /\ exc' = exc
       ELSE /\ pc' = [pc EXCEPT ![w] = "raised"]
            /\ exc' = [exc EXCEPT ![w] = Reraised(e)]
            /\ UNCHANGED <<slept, wake>>
    /\ other_failures' = [other_failures EXCEPT ![w] =
                              IF @ = Untracked THEN @ ELSE @ + OtherFailure(e)]
    /\ UNCHANGED <<capacity, tokens, last_refill, now, rl_lock, attempt,
                   wait_time, calls, consumed, callTimes>>

\* the backoff sleep ends: the except clause is left by `continue` with the
\* next attempt
BackoffWake(w) ==
    /\ UNCHANGED <<enrVars, bktVars, ctorVars, nlpVars, stVars>>
    /\ pc[w] = "backoff"
    /\ now >= wake[w]
    /\ attempt' = [attempt EXCEPT ![w] = NextAttempt(@)]
    /\ pc' = [pc EXCEPT ![w] = "wait"]
    /\ wake' = [wake EXCEPT ![w] = 0]
    /\ slept' = [slept EXCEPT ![w] = 0]
    /\ UNCHANGED <<capacity, tokens, last_refill, now, rl_lock, wait_time,
                   calls, consumed, exc, other_failures, callTimes>>

\* RateLimiter.get_bucket_status("api"): under RateLimiter._lock, refill
GetBucketStatus ==
    /\ UNCHANGED <<enrVars, bktVars, ctorVars, nlpVars, stVars>>
    /\ rl_lock = 0
    /\ last_refill < now
    /\ tokens' = Refilled(tokens, last_refill, now)
    /\ last_refill' = now
    /\ UNCHANGED <<capacity, now, rl_lock, pc, attempt, wait_time, wake,
                   slept, calls, consumed, exc, other_failures, callTimes>>

FuncErrors == {"rate_limit", "other"}

WaitIfNeededStep == \E w \in Workers : WaitIfNeeded(w)
WaitWakeStep == \E w \in Workers : WaitWake(w)
ConsumeStep == \E w \in Workers : Consume(w)
HitWaitStep == \E w \in Workers : HitWait(w)
HitWakeStep == \E w \in Workers : HitWake(w)
CallReturnsStep == \E w \in Workers : CallReturns(w)
CallRaisesStep == \E w \in Workers, e \in FuncErrors : CallRaises(w, e)
BackoffWakeStep == \E w \in Workers : BackoffWake(w)

Next ==
    \/ Tick
    \/ WaitIfNeededStep
    \/ WaitWakeStep
    \/ ConsumeStep
    \/ HitWaitStep
    \/ HitWakeStep
    \/ CallReturnsStep
    \/ CallRaisesStep
    \/ BackoffWakeStep
    \/ GetBucketStatus



\* ===================================================== EnrichmentService
\* bounds of the enrichment model: rows in the csv, and self.page_size
MaxRows == 3
page_size == 2

\* FinnhubService.lookup_symbol: max_attempts
max_attempts == 3

\* pd.isna(x)
IsNa(v) == v.type \in {"NaN", "None"}

\* str(x) of a cell
PyStr(v) ==
    IF v.type = "NaN" THEN <<"n","a","n">>
    ELSE IF v.type = "None" THEN <<"N","o","n","e">>
    ELSE v.val

\* isinstance(x, str), and the truth value of an Optional[str]
IsInstanceStr(v) == v.type = "str"
Truthy(v) == v.type = "str" /\ v.val # <<>>

\* the rows a csv may hold
InputRows == {
    [Name |-> Str(<<"A","p","p","l","e"," ","I","n","c">>), Symbol |-> NaN],
    [Name |-> Str(<<"G","o","g","l","e"," ","L","L","C">>), Symbol |-> NaN],
    [Name |-> Str(<<"U","n","k","n","o","w","n"," ","C","o">>), Symbol |-> NaN],
    [Name |-> Str(<<"M","i","c","r","o","s","o","f","t"," ","C","o","r","p">>),
     Symbol |-> Str(<<"M","S","F","T">>)],
    [Name |-> Str(<<" ">>), Symbol |-> NaN] }

\* rows of a csv some of whose Name fields are empty or blank: pd.read_csv
\* reads an empty field as NaN, a blank one as the string it is
NameRows == {
    [Name |-> NaN, Symbol |-> NaN],
    [Name |-> Str(<<" ">>), Symbol |-> NaN],
    [Name |-> NaN, Symbol |-> Str(<<"M","S","F","T">>)],
    [Name |-> Str(<<"A","p","p","l","e"," ","I","n","c">>), Symbol |-> NaN] }

RECURSIVE SeqsUpTo(_, _)
SeqsUpTo(S, n) ==
    IF n = 0 THEN {<<>>}
    ELSE SeqsUpTo(S, n - 1)
         \cup {Append(q, x) : q \in {p \in SeqsUpTo(S, n - 1) : Len(p) = n - 1}, x \in S}

\* the names enrich_single_company may be asked about
CompanyNames == {
    Str(<<"A","p","p","l","e"," ","I","n","c">>),
    Str(<<"a","p","p","l","e">>),
    Str(<<"G","o","g","l","e"," ","L","L","C">>),
    Str(<<"U","n","k","n","o","w","n"," ","C","o">>),
    Str(<<" ">>),
    Str(<<>>) }

\* first results the symbol_lookup endpoint may answer a single lookup with:
\* each of description, displaySymbol and name may be filled, empty or
\* missing, and a field may carry surrounding blanks
SingleFirstResults ==
    {[symbol |-> Str(<<"A","A","P","L">>), description |-> d,
      displaySymbol |-> ds, name |-> n] :
        d \in {Str(<<"A","p","p","l","e"," ","I","n","c">>),
               Str(<<" ","A","p","p","l","e"," ">>), Str(<<>>), None},
        ds \in {Str(<<"A","A","P","L">>), Str(<<>>)},
        n \in {Str(<<"A","p","p","l","e">>), None}}

\* first results the symbol_lookup endpoint may answer with
ApiFirstResults == {
    [symbol |-> Str(<<"A","A","P","L">>),
     description |-> Str(<<"A","p","p","l","e"," ","I","n","c">>),
     displaySymbol |-> Str(<<"A","A","P","L">>), name |-> None] }

\* lookup_symbol: no first_result, the response had no result
NoFirstResult ==
    [symbol |-> None, description |-> None, displaySymbol |-> None, name |-> None]

\* outcomes of one _make_api_call("symbol_lookup", word)
ApiOutcomes ==
    {[kind |-> "match", first |-> r] : r \in ApiFirstResults}
    \cup {[kind |-> k, first |-> None] : k \in {"empty", "rate_limit", "error"}}

\* a submit test that takes every row
NeedsSymbolAlways(row) == TRUE

\* enrich_csv_file: the test of the submit loop
NeedsSymbol(row) == IsNa(row.Symbol) \/ row.Symbol = Str(<<>>)
Selected(row) == NeedsSymbol(row) /\ Strip(PyStr(row.Name)) # <<>>

\* page_df = df.iloc[start_idx:end_idx], as row numbers from 1
PageFirst(p) == p * page_size + 1
PageLast(p) == Min(p * page_size + page_size, Len(df))
\* a page count that rounds down
total_pages_floor == Len(df) \div page_size

total_pages == (Len(df) + page_size - 1) \div page_size

\* get_symbol: company_name.split(" ")[0]
FirstToken(name) == FirstWord(name)

\* lookup_symbol: original_symbol of the stripped argument
OriginalSymbol(arg) == FirstWord(Strip(arg))

\* NLPMatcher.get_corrected_word on each word a row can ask about, computed
\* once
Corrections ==
    [t \in {OriginalSymbol(FirstToken(PyStr(n))) :
               n \in {r.Name : r \in InputRows \cup NameRows} \cup CompanyNames}
        |-> get_corrected_word(t)]

\* a lookup that searches any correction, the original word in another case
\* included
SearchWordAnyCorrection(orig, k) ==
    IF k = 1 THEN Str(orig)
    ELSE LET corrected_word == Corrections[orig] IN
           IF Truthy(corrected_word) THEN corrected_word ELSE None

\* a lookup that searches the original word again when there is no correction
SearchWordRetryOriginal(orig, k) ==
    IF k = 1 THEN Str(orig)
    ELSE LET corrected_word == Corrections[orig] IN
           IF Truthy(corrected_word) /\ Lower(corrected_word.val) # Lower(orig)
           THEN corrected_word
           ELSE Str(orig)

\* lookup_symbol: the word attempt k searches for, None when the attempt is
\* skipped
SearchWord(orig, k) ==
    IF k = 1 THEN Str(orig)
    ELSE LET corrected_word == Corrections[orig] IN
           IF Truthy(corrected_word) /\ Lower(corrected_word.val) # Lower(orig)
           THEN corrected_word
           ELSE None

\* search_word of every attempt of lookup_symbol on every name a row can
\* carry, computed once
SearchWords ==
    [n \in {r.Name : r \in InputRows \cup NameRows} \cup CompanyNames,
     k \in 0..(max_attempts + 1)
        |-> SearchWord(OriginalSymbol(FirstToken(PyStr(n))), k)] @@ <<>>

\* a description that prefers the name field
DescriptionNameFirst(first) ==
    IF Truthy(first.name) THEN Strip(first.name.val)
    ELSE IF Truthy(first.description) THEN Strip(first.description.val)
    ELSE IF Truthy(first.displaySymbol) THEN Strip(first.displaySymbol.val)
    ELSE <<>>

\* lookup_symbol: description of the first result
Description(first) ==
    IF Truthy(first.description) THEN Strip(first.description.val)
    ELSE IF Truthy(first.displaySymbol) THEN Strip(first.displaySymbol.val)
    ELSE IF Truthy(first.name) THEN Strip(first.name.val)
    ELSE <<>>

\* how lookup_symbol ends
Pending == [kind |-> "pending", value |-> None, exc |-> "none"]
Returned(v) == [kind |-> "returned", value |-> v, exc |-> "none"]
Raised(e) == [kind |-> "raised", value |-> None, exc |-> e]

\* get_symbol: the str lookup_symbol returned, None for anything else and
\* for any exception
GetSymbol(l) ==
    IF l.kind = "returned" /\ IsInstanceStr(l.value) THEN l.value ELSE None

\* process_row: the symbol returned with idx
ProcessRow(l) == IF IsInstanceStr(GetSymbol(l)) THEN GetSymbol(l) ELSE None

\* a loop of max_attempts + 1 iterations
LoopHasNextOffByOne(k) == k <= max_attempts

\* whether the for loop of lookup_symbol has an iteration after k
LoopHasNext(k) == k + 1 <= max_attempts

\* df.to_csv: an absent value is written as an empty field
CsvField(v) == IF IsNa(v) THEN <<>> ELSE v.val
ToCsv(d) ==
    [i \in 1..Len(d) |-> [Name |-> CsvField(d[i].Name), Symbol |-> CsvField(d[i].Symbol)]]

NoFile == [exists |-> FALSE, rows |-> <<>>]
NoResult ==
    [message |-> "none", rows_processed |-> 0, rows_updated |-> 0, rows_failed |-> 0]
NoResponse == [symbol |-> None, success |-> FALSE, confidence |-> -1]

\* ------------------------------------------------------------------- Init
\* enrich_csv_file and enrich_single_company are not running
EnrichOff ==
    /\ hasColumns = TRUE
    /\ max_workers = threads
    /\ df = <<>>
    /\ epc = "off"
    /\ page = 0
    /\ cursor = 0
    /\ futures = <<>>
    /\ tpc = <<>>
    /\ attempt_num = <<>>
    /\ attempts = <<>>
    /\ lookups = <<>>
    /\ lres = <<>>
    /\ first_result = <<>>
    /\ tres = <<>>
    /\ merged = {}
    /\ rows_processed = 0
    /\ rows_updated = 0
    /\ output = NoFile
    /\ flushes = 0
    /\ result = NoResult
    /\ response = NoResponse

\* the enrichment state while only the limiter is exercised
EnrichIdle == EnrichOff /\ MatcherIdle

\* the limiter state while only the enrichment is exercised
LimiterIdle ==
    /\ capacity = 1
    /\ tokens = TokenUnits(1)
    /\ last_refill = 0
    /\ now = 0
    /\ rl_lock = 0
    /\ pc = [w \in Workers |-> "wait"]
    /\ attempt = [w \in Workers |-> 0]
    /\ wait_time = [w \in Workers |-> Unbound]
    /\ wake = [w \in Workers |-> 0]
    /\ slept = [w \in Workers |-> 0]
    /\ calls = [w \in Workers |-> 0]
    /\ consumed = [w \in Workers |-> 0]
    /\ exc = [w \in Workers |-> "none"]
    /\ other_failures = [w \in Workers |-> Untracked]
    /\ callTimes = <<>>
    /\ BucketIdle
    /\ CtorIdle
    /\ StatusIdle

\* enrich_csv_file is entered with a csv of up to MaxRows rows
EnrichEntered ==
    /\ hasColumns \in BOOLEAN
    /\ max_workers = threads
    /\ df \in SeqsUpTo(InputRows, MaxRows)
    /\ hasColumns = FALSE => Len(df) <= 1
    /\ epc = "start"
    /\ page = 0
    /\ cursor = 0
    /\ futures = <<>>
    /\ tpc = [i \in 1..Len(df) |-> "none"]
    /\ attempt_num = [i \in 1..Len(df) |-> 0]
    /\ attempts = [i \in 1..Len(df) |-> <<>>]
    /\ lookups = [i \in 1..Len(df) |-> 0]
    /\ lres = [i \in 1..Len(df) |-> Pending]
    /\ first_result = [i \in 1..Len(df) |-> NoFirstResult]
    /\ tres = [i \in 1..Len(df) |-> None]
    /\ merged = {}
    /\ rows_processed = 0
    /\ rows_updated = 0
    /\ output = NoFile
    /\ flushes = 0
    /\ result = NoResult
    /\ response = NoResponse
    /\ MatcherIdle

InitEnrich ==
    /\ LimiterIdle
    /\ EnrichEntered

\* ---------------------------------------------------------------- actions
\* an entry that tests only for an empty frame
ReadCsvSkipsColumnCheck ==
    /\ epc = "start"
    /\ IF Len(df) = 0
       THEN /\ epc' = "done"
            /\ result' = [NoResult EXCEPT !.message = "empty"]
            /\ cursor' = cursor
       ELSE /\ epc' = "submit"
            /\ cursor' = PageFirst(0)
            /\ result' = result
    /\ UNCHANGED <<hasColumns, max_workers, df, page, futures, tpc, attempt_num, attempts,
                   lookups, lres, tres, merged, rows_processed, rows_updated,
                   output, flushes>>
    /\ UNCHANGED <<response, first_result, limVars, bktVars, ctorVars, nlpVars, stVars>>

\* enrich_csv_file up to the page loop: an empty frame or a missing column
\* returns at once with zero statistics
ReadCsv ==
    /\ epc = "start"
    /\ IF Len(df) = 0
       THEN /\ epc' = "done"
            /\ result' = [NoResult EXCEPT !.message = "empty"]
            /\ cursor' = cursor
       ELSE IF ~hasColumns
       THEN /\ epc' = "done"
            /\ result' = [NoResult EXCEPT !.message = "missing columns"]
            /\ cursor' = cursor
       ELSE /\ epc' = "submit"
            /\ cursor' = PageFirst(0)
            /\ result' = result
    /\ UNCHANGED <<hasColumns, max_workers, df, page, futures, tpc, attempt_num, attempts,
                   lookups, lres, tres, merged, rows_processed, rows_updated,
                   output, flushes>>
    /\ UNCHANGED <<response, first_result, limVars, bktVars, ctorVars, nlpVars, stVars>>

\* rows of page p that the submit loop hands to the executor, in row order
RECURSIVE SubmittedFrom(_, _)
SubmittedFrom(i, last) ==
    IF i > last THEN <<>>
    ELSE IF Selected(df[i]) THEN <<i>> \o SubmittedFrom(i + 1, last)
    ELSE SubmittedFrom(i + 1, last)

\* `for idx, row in page_df.iterrows()`: submit process_row for every row of
\* the page that lacks a symbol and has a name
SubmitPage ==
    /\ epc = "submit"
    /\ futures' = SubmittedFrom(PageFirst(page), PageLast(page))
    /\ tpc' = [i \in 1..Len(df) |->
                 IF i \in PageFirst(page)..PageLast(page) /\ Selected(df[i])
                 THEN "queued" ELSE tpc[i]]
    /\ cursor' = PageLast(page) + 1
    /\ epc' = "collect"
    /\ UNCHANGED <<hasColumns, max_workers, df, page, attempt_num, attempts, lookups, lres,
                   tres, merged, rows_processed, rows_updated, output,
                   flushes, result>>
    /\ UNCHANGED <<response, first_result, limVars, bktVars, ctorVars, nlpVars, stVars>>

\* tasks a pool thread is running: inside lookup_symbol, or between its end
\* and the return of process_row
Running == {i \in 1..Len(df) : tpc[i] \in {"running", "ended"}}

\* a pool that starts a thread for every task submitted
PoolUnbounded(running, size) == TRUE

\* ThreadPoolExecutor: a queued task starts only while fewer than max_workers
\* tasks are being run
PoolHasRoom(running, size) == Cardinality(running) < size

\* a free pool thread takes the oldest queued task: process_row and
\* get_symbol enter lookup_symbol, which raises ValidationException for an
\* empty argument
TaskStart(i) ==
    /\ tpc[i] = "queued"
    /\ PoolHasRoom(Running, max_workers)
    /\ \A k \in 1..Len(futures) :
          tpc[futures[k]] = "queued" => futures[k] >= i
    /\ IF Strip(FirstToken(PyStr(df[i].Name))) = <<>>
       THEN /\ lres' = [lres EXCEPT ![i] = Raised("ValidationException")]
            /\ tpc' = [tpc EXCEPT ![i] = "ended"]
            /\ attempt_num' = attempt_num
       ELSE /\ tpc' = [tpc EXCEPT ![i] = "running"]
            /\ attempt_num' = [attempt_num EXCEPT ![i] = 1]
            /\ lres' = lres
    /\ UNCHANGED <<hasColumns, max_workers, df, epc, page, cursor, futures, attempts,
                   lookups, tres, merged, rows_processed, rows_updated, output,
                   flushes, result>>
    /\ UNCHANGED <<response, first_result, limVars, bktVars, ctorVars, nlpVars, stVars>>

\* trace entry of lookup_symbol
Entry(k, word, status) == [attempt |-> k, word |-> word, status |-> status]

\* the trace after the api call of attempt k ended as `kind`
TraceAfter(trace, k, word, kind) ==
    IF kind = "match" THEN Append(trace, Entry(k, word, "success"))
    ELSE IF kind = "empty" THEN Append(trace, Entry(k, word, "no_results"))
    ELSE IF kind = "rate_limit" THEN Append(trace, Entry(k, word, "tried"))
    ELSE Append(Append(trace, Entry(k, word, "tried")), Entry(k, word, "error"))

\* a lookup_symbol without the `except Exception` clause: the error of the api
\* call leaves it
LookupAfterErrorEscapes(k, o) ==
    IF o.kind = "match"
    THEN Returned(Tuple(o.first.symbol.val, Description(o.first)))
    ELSE IF o.kind = "rate_limit" THEN Raised("APIRateLimitException")
    ELSE IF o.kind = "error" THEN Raised("ServiceUnavailableException")
    ELSE IF LoopHasNext(k) THEN Pending
    ELSE Raised("SymbolNotFoundException")

\* a lookup_symbol that takes a rate limit for one more failed attempt
LookupAfterMasksRateLimit(k, o) ==
    IF o.kind = "match"
    THEN Returned(Tuple(o.first.symbol.val, Description(o.first)))
    ELSE IF LoopHasNext(k) THEN Pending
    ELSE Raised("SymbolNotFoundException")

\* how lookup_symbol goes on after attempt k: the value it returns, the
\* exception it raises, or Pending when the loop continues
LookupAfter(k, o) ==
    IF o.kind = "match"
    THEN Returned(Tuple(o.first.symbol.val, Description(o.first)))
    ELSE IF o.kind = "rate_limit" THEN Raised("APIRateLimitException")
    ELSE IF LoopHasNext(k) THEN Pending
    ELSE Raised("SymbolNotFoundException")

\* one iteration of the attempt loop of lookup_symbol for the task of row i,
\* whose _make_api_call ends as o; the task is "ended" once lookup_symbol has
\* returned or raised
LookupBody(i, o) ==
    /\ tpc[i] = "running"
    /\ \E k \in {attempt_num[i]} :
       \E word \in {SearchWords[df[i].Name, k]} :
       \E after \in {IF word = None
                     THEN (IF LoopHasNext(k) THEN Pending
                           ELSE Raised("SymbolNotFoundException"))
                     ELSE LookupAfter(k, o)} :
         /\ word = None => o.kind = "empty"
         /\ attempts' = [attempts EXCEPT ![i] =
                            IF word = None THEN @
                            ELSE TraceAfter(@, k, word.val, o.kind)]
         /\ lookups' = [lookups EXCEPT ![i] = IF word = None THEN @ ELSE @ + 1]
         /\ lres' = [lres EXCEPT ![i] = after]
         /\ first_result' = [first_result EXCEPT ![i] =
                                IF word # None /\ o.kind = "match"
                                THEN o.first ELSE NoFirstResult]
         /\ IF after = Pending
            THEN /\ attempt_num' = [attempt_num EXCEPT ![i] = k + 1]
                 /\ tpc' = tpc
            ELSE /\ tpc' = [tpc EXCEPT ![i] = "ended"]
                 /\ attempt_num' = attempt_num
    /\ UNCHANGED <<hasColumns, max_workers, df, epc, page, cursor, futures, tres, merged,
                   rows_processed, rows_updated, output, flushes, result>>
    /\ UNCHANGED <<response, bktVars, ctorVars, nlpVars, stVars>>

\* the iteration with the api call taken as one step that leaves the limiter
\* as it was
LookupAttempt(i, o) ==
    /\ LookupBody(i, o)
    /\ UNCHANGED limVars

\* get_symbol and process_row take what lookup_symbol returned or raised and
\* return (idx, symbol); the locals of lookup_symbol are gone afterwards
TaskReturn(i) ==
    /\ tpc[i] = "ended"
    /\ tres' = [tres EXCEPT ![i] = ProcessRow(lres[i])]
    /\ tpc' = [tpc EXCEPT ![i] = "done"]
    /\ attempt_num' = [attempt_num EXCEPT ![i] = 0]
    /\ attempts' = [attempts EXCEPT ![i] = <<>>]
    /\ lookups' = [lookups EXCEPT ![i] = 0]
    /\ lres' = [lres EXCEPT ![i] = Pending]
    /\ first_result' = [first_result EXCEPT ![i] = NoFirstResult]
    /\ UNCHANGED <<hasColumns, max_workers, df, epc, page, cursor, futures, merged,
                   rows_processed, rows_updated, output, flushes, result>>
    /\ UNCHANGED <<response, limVars, bktVars, ctorVars, nlpVars, stVars>>

\* a merge that fills the first row still lacking a symbol, whichever task
\* the result came from
SetSymbolAtFirstEmpty(d, idx, symbol) ==
    LET free == {j \in 1..Len(d) : NeedsSymbol(d[j])} IN
      IF free = {} THEN d
      ELSE [d EXCEPT ![CHOOSE j \in free : \A k \in free : j <= k].Symbol = symbol]

\* a merge that writes the result over the whole row
SetSymbolAtWholeRow(d, idx, symbol) ==
    [d EXCEPT ![idx] = [Name |-> symbol, Symbol |-> symbol]]

\* df.at[idx, "Symbol"] = symbol
SetSymbolAt(d, idx, symbol) == [d EXCEPT ![idx].Symbol = symbol]

\* a collect loop that takes a finished future again after merging it
MergeAgain(i) ==
    /\ epc = "collect"
    /\ \E k \in 1..Len(futures) : futures[k] = i
    /\ tpc[i] \in {"done", "merged"}
    /\ df' = SetSymbolAt(df, i, tres[i])
    /\ rows_processed' = rows_processed + 1
    /\ rows_updated' = IF Truthy(tres[i]) THEN rows_updated + 1 ELSE rows_updated
    /\ merged' = merged \cup {i}
    /\ tpc' = [tpc EXCEPT ![i] = "merged"]
    /\ tres' = [tres EXCEPT ![i] = None]
    /\ UNCHANGED <<hasColumns, max_workers, epc, page, cursor, futures, attempt_num,
                   attempts, lookups, lres, output, flushes, result>>
    /\ UNCHANGED <<response, first_result, limVars, bktVars, ctorVars, nlpVars, stVars>>

\* one iteration of `for future in as_completed(futures)`: any finished
\* future not yet merged
Merge(i) ==
    /\ epc = "collect"
    /\ \E k \in 1..Len(futures) : futures[k] = i
    /\ tpc[i] = "done"
    /\ i \notin merged
    /\ df' = SetSymbolAt(df, i, tres[i])
    /\ rows_processed' = rows_processed + 1
    /\ rows_updated' = IF Truthy(tres[i]) THEN rows_updated + 1 ELSE rows_updated
    /\ merged' = merged \cup {i}
    /\ tpc' = [tpc EXCEPT ![i] = "merged"]
    /\ tres' = [tres EXCEPT ![i] = None]
    /\ UNCHANGED <<hasColumns, max_workers, epc, page, cursor, futures, attempt_num,
                   attempts, lookups, lres, output, flushes, result>>
    /\ UNCHANGED <<response, first_result, limVars, bktVars, ctorVars, nlpVars, stVars>>

\* a page loop that goes on once any future has been merged
PageMergedAny == futures = <<>> \/ \E k \in 1..Len(futures) : futures[k] \in merged

\* every future of the page has been merged
PageMerged == \A k \in 1..Len(futures) : futures[k] \in merged

\* a result that counts every row without a new symbol as failed
CompletedFailedOfAll ==
    [message |-> "completed", rows_processed |-> rows_processed,
     rows_updated |-> rows_updated, rows_failed |-> Len(df) - rows_updated]

\* the EnrichmentResult of a completed run
Completed ==
    [message |-> "completed", rows_processed |-> rows_processed,
     rows_updated |-> rows_updated, rows_failed |-> rows_processed - rows_updated]

\* the EnrichmentResult of the except branch
Failed ==
    [message |-> "error", rows_processed |-> 0, rows_updated |-> 0, rows_failed |-> 0]

\* df.to_csv(output_csv) after the page, then the next page or the return
Flush ==
    /\ epc = "collect"
    /\ PageMerged
    /\ output' = [exists |-> TRUE, rows |-> ToCsv(df)]
    /\ flushes' = flushes + 1
    /\ futures' = <<>>
    /\ IF page + 1 < total_pages
       THEN /\ page' = page + 1
            /\ cursor' = PageFirst(page + 1)
            /\ epc' = "submit"
            /\ result' = result
       ELSE /\ epc' = "done"
            /\ result' = Completed
            /\ UNCHANGED <<page, cursor>>
    /\ UNCHANGED <<hasColumns, max_workers, df, tpc, attempt_num, attempts, lookups, lres,
                   tres, merged, rows_processed, rows_updated>>
    /\ UNCHANGED <<response, first_result, limVars, bktVars, ctorVars, nlpVars, stVars>>

\* df.to_csv raises: the except branch returns zero statistics; the file is
\* left as it was or truncated
FlushFails(truncated) ==
    /\ epc = "collect"
    /\ PageMerged
    /\ output' = IF truncated THEN [exists |-> TRUE, rows |-> <<>>] ELSE output
    /\ epc' = "done"
    /\ result' = Failed
    /\ UNCHANGED <<hasColumns, max_workers, df, page, cursor, futures, tpc, attempt_num,
                   attempts, lookups, lres, tres, merged, rows_processed,
                   rows_updated, flushes>>
    /\ UNCHANGED <<response, first_result, limVars, bktVars, ctorVars, nlpVars, stVars>>

TaskStartStep == \E i \in 1..Len(df) : TaskStart(i)
LookupAttemptStep == \E i \in 1..Len(df), o \in ApiOutcomes : LookupAttempt(i, o)
TaskReturnStep == \E i \in 1..Len(df) : TaskReturn(i)
MergeStep == \E i \in 1..Len(df) : Merge(i)
FlushFailsStep == \E truncated \in BOOLEAN : FlushFails(truncated)

NextEnrich ==
    \/ ReadCsv
    \/ SubmitPage
    \/ TaskStartStep
    \/ LookupAttemptStep
    \/ TaskReturnStep
    \/ MergeStep
    \/ Flush
    \/ FlushFailsStep

SpecEnrich == InitEnrich /\ [][NextEnrich]_vars

\* enrich_csv_file is entered with a csv of up to MaxRows rows drawn from
\* `rows`, on a host whose pool size is one of `sizes`
InitRows(rows, sizes) ==
    /\ LimiterIdle
    /\ hasColumns = TRUE
    /\ max_workers \in sizes
    /\ df \in SeqsUpTo(rows, MaxRows)
    /\ epc = "start"
    /\ page = 0
    /\ cursor = 0
    /\ futures = <<>>
    /\ tpc = [i \in 1..Len(df) |-> "none"]
    /\ attempt_num = [i \in 1..Len(df) |-> 0]
    /\ attempts = [i \in 1..Len(df) |-> <<>>]
    /\ lookups = [i \in 1..Len(df) |-> 0]
    /\ lres = [i \in 1..Len(df) |-> Pending]
    /\ first_result = [i \in 1..Len(df) |-> NoFirstResult]
    /\ tres = [i \in 1..Len(df) |-> None]
    /\ merged = {}
    /\ rows_processed = 0
    /\ rows_updated = 0
    /\ output = NoFile
    /\ flushes = 0
    /\ result = NoResult
    /\ response = NoResponse
    /\ MatcherIdle

\* enrich_csv_file on a host where os.cpu_count() is 1 or 2: self.threads is
\* min(10, os.cpu_count()), the size of the pool of every page
InitPool == InitRows(InputRows, 1..threads)

SpecPool == InitPool /\ [][NextEnrich]_vars

\* enrich_csv_file on a csv with empty Name fields
InitNames == InitRows(NameRows, {threads})

SpecNames == InitNames /\ [][NextEnrich]_vars

\* ------------------------------------------------- enrich_single_company
\* outcomes of one _make_api_call("symbol_lookup", word) of a single lookup
SingleApiOutcomes ==
    {[kind |-> "match", first |-> r] : r \in SingleFirstResults}
    \cup {[kind |-> k, first |-> None] : k \in {"empty", "rate_limit", "error"}}

\* enrich_single_company: the SymbolResponse built from what get_symbol
\* returned; the except branch builds the same response as the else branch
EnrichSingleCompany(l) ==
    LET symbol == GetSymbol(l) IN
      IF Truthy(symbol)
      THEN [symbol |-> symbol, success |-> TRUE, confidence |-> 1]
      ELSE [symbol |-> None, success |-> FALSE, confidence |-> 0]

\* enrich_single_company is entered with company_name; the argument is held
\* as the one row of df, so that get_symbol and lookup_symbol take the steps
\* they take for a row of the batch
SingleEntered ==
    /\ hasColumns = TRUE
    /\ max_workers = threads
    /\ df \in {<<[Name |-> n, Symbol |-> NaN]>> : n \in CompanyNames}
    /\ epc = "single"
    /\ page = 0
    /\ cursor = 0
    /\ futures = <<>>
    /\ tpc = <<"queued">>
    /\ attempt_num = <<0>>
    /\ attempts = << <<>> >>
    /\ lookups = <<0>>
    /\ lres = <<Pending>>
    /\ first_result = <<NoFirstResult>>
    /\ tres = <<None>>
    /\ merged = {}
    /\ rows_processed = 0
    /\ rows_updated = 0
    /\ output = NoFile
    /\ flushes = 0
    /\ result = NoResult
    /\ response = NoResponse
    /\ MatcherIdle

InitSingle ==
    /\ LimiterIdle
    /\ SingleEntered

\* get_symbol has ended: enrich_single_company returns its SymbolResponse;
\* lres, attempts and lookups stay as the record of the call
EnrichSingleReturn ==
    /\ epc = "single"
    /\ tpc[1] = "ended"
    /\ response' = EnrichSingleCompany(lres[1])
    /\ tpc' = [tpc EXCEPT ![1] = "done"]
    /\ epc' = "done"
    /\ UNCHANGED <<hasColumns, max_workers, df, page, cursor, futures, attempt_num,
                   attempts, lookups, lres, tres, merged, rows_processed,
                   rows_updated, output, flushes, result>>
    /\ UNCHANGED <<first_result, limVars, bktVars, ctorVars, nlpVars, stVars>>

SingleStartStep == epc = "single" /\ TaskStart(1)
SingleLookupStep == \E o \in SingleApiOutcomes : epc = "single" /\ LookupAttempt(1, o)

NextSingle ==
    \/ SingleStartStep
    \/ SingleLookupStep
    \/ EnrichSingleReturn

SpecSingle == InitSingle /\ [][NextSingle]_vars

\* ============================================================ TokenBucket
\* The methods of one TokenBucket called by the workers, one statement of a
\* method per step; consume and get_wait_time run `with self._lock`.

\* a lock that every thread may enter
BucketLockIgnored(lock) == TRUE

\* self._lock can be acquired
BucketLockFree(lock) == lock = 0

\* TokenBucket.__init__: a full bucket, last_refill = time.time()
InitBucket ==
    /\ EnrichIdle
    /\ capacity \in 1..MaxCapacity
    /\ tokens = TokenUnits(capacity)
    /\ last_refill = 0
    /\ now = 0
    /\ rl_lock = 0
    /\ pc = [w \in Workers |-> "idle"]
    /\ attempt = [w \in Workers |-> 0]
    /\ wait_time = [w \in Workers |-> Unbound]
    /\ wake = [w \in Workers |-> 0]
    /\ slept = [w \in Workers |-> 0]
    /\ calls = [w \in Workers |-> 0]
    /\ consumed = [w \in Workers |-> 0]
    /\ exc = [w \in Workers |-> "none"]
    /\ other_failures = [w \in Workers |-> Untracked]
    /\ callTimes = <<>>
    /\ BucketIdle
    /\ CtorIdle
    /\ StatusIdle

\* history: a refill may be marked as the first of two refills
Marked(m, tok, t) == IF m THEN [tokens |-> tok, time |-> t] ELSE mark

\* consume(n): `with self._lock:` entered
ConsumeEnter(w, n) ==
    /\ pc[w] = "idle"
    /\ BucketLockFree(bucket_lock)
    /\ bucket_lock' = w
    /\ tokens_arg' = [tokens_arg EXCEPT ![w] = n]
    /\ pc' = [pc EXCEPT ![w] = "c_locked"]
    /\ UNCHANGED <<capacity, tokens, last_refill, now, rl_lock, attempt,
                   wait_time, wake, slept, calls, consumed, exc, other_failures, callTimes>>
    /\ UNCHANGED <<mark, enrVars, ctorVars, nlpVars, stVars>>

\* consume(n): self._refill()
ConsumeRefill(w, m) ==
    /\ pc[w] = "c_locked"
    /\ tokens' = Refilled(tokens, last_refill, now)
    /\ last_refill' = now
    /\ mark' = Marked(m, tokens', now)
    /\ pc' = [pc EXCEPT ![w] = "c_refilled"]
    /\ UNCHANGED <<capacity, now, rl_lock, attempt, wait_time, wake, slept,
                   calls, consumed, exc, other_failures, callTimes>>
    /\ UNCHANGED <<bucket_lock, tokens_arg, enrVars, ctorVars, nlpVars, stVars>>

\* consume(n): `if self.tokens >= tokens`, and `return False` with the lock
\* released when the test fails
ConsumeTest(w) ==
    /\ pc[w] = "c_refilled"
    /\ IF tokens >= TokenUnits(tokens_arg[w])
       THEN /\ pc' = [pc EXCEPT ![w] = "c_granted"]
            /\ UNCHANGED <<bucket_lock, tokens_arg>>
       ELSE /\ pc' = [pc EXCEPT ![w] = "idle"]
            /\ bucket_lock' = IF bucket_lock = w THEN 0 ELSE bucket_lock
            /\ tokens_arg' = [tokens_arg EXCEPT ![w] = 0]
    /\ UNCHANGED <<capacity, tokens, last_refill, now, rl_lock, attempt,
                   wait_time, wake, slept, calls, consumed, exc, other_failures, callTimes>>
    /\ UNCHANGED <<mark, enrVars, ctorVars, nlpVars, stVars>>

\* consume(n): `self.tokens -= tokens; return True`, the lock released
ConsumeTake(w) ==
    /\ pc[w] = "c_granted"
    /\ tokens' = tokens - TokenUnits(tokens_arg[w])
    /\ mark' = [tokens |-> tokens', time |-> last_refill]
    /\ pc' = [pc EXCEPT ![w] = "idle"]
    /\ bucket_lock' = IF bucket_lock = w THEN 0 ELSE bucket_lock
    /\ tokens_arg' = [tokens_arg EXCEPT ![w] = 0]
    /\ UNCHANGED <<capacity, last_refill, now, rl_lock, attempt, wait_time,
                   wake, slept, calls, consumed, exc, other_failures, callTimes>>
    /\ UNCHANGED <<enrVars, ctorVars, nlpVars, stVars>>

\* get_wait_time(n): `with self._lock:` entered
GetWaitTimeEnter(w, n) ==
    /\ pc[w] = "idle"
    /\ BucketLockFree(bucket_lock)
    /\ bucket_lock' = w
    /\ tokens_arg' = [tokens_arg EXCEPT ![w] = n]
    /\ pc' = [pc EXCEPT ![w] = "g_locked"]
    /\ UNCHANGED <<capacity, tokens, last_refill, now, rl_lock, attempt,
                   wait_time, wake, slept, calls, consumed, exc, other_failures, callTimes>>
    /\ UNCHANGED <<mark, enrVars, ctorVars, nlpVars, stVars>>

\* get_wait_time(n): self._refill() and the value returned, the lock released
GetWaitTimeBody(w, m) ==
    /\ pc[w] = "g_locked"
    /\ tokens' = Refilled(tokens, last_refill, now)
    /\ last_refill' = now
    /\ mark' = Marked(m, tokens', now)
    /\ wait_time' = [wait_time EXCEPT ![w] =
                        get_wait_time(tokens, last_refill, now, tokens_arg[w])]
    /\ pc' = [pc EXCEPT ![w] = "g_returned"]
    /\ bucket_lock' = IF bucket_lock = w THEN 0 ELSE bucket_lock
    /\ UNCHANGED <<capacity, now, rl_lock, attempt, slept, wake, calls,
                   consumed, exc, other_failures, callTimes>>
    /\ UNCHANGED <<tokens_arg, enrVars, ctorVars, nlpVars, stVars>>

\* the caller is done with the wait time
GetWaitTimeDone(w) ==
    /\ pc[w] = "g_returned"
    /\ pc' = [pc EXCEPT ![w] = "idle"]
    /\ wait_time' = [wait_time EXCEPT ![w] = Unbound]
    /\ tokens_arg' = [tokens_arg EXCEPT ![w] = 0]
    /\ UNCHANGED <<capacity, tokens, last_refill, now, rl_lock, attempt,
                   wake, slept, calls, consumed, exc, other_failures, callTimes>>
    /\ UNCHANGED <<bucket_lock, mark, enrVars, ctorVars, nlpVars, stVars>>

ConsumeEnterStep == \E w \in Workers, n \in 1..capacity : ConsumeEnter(w, n)
ConsumeRefillStep == \E w \in Workers, m \in BOOLEAN : ConsumeRefill(w, m)
ConsumeTestStep == \E w \in Workers : ConsumeTest(w)
ConsumeTakeStep == \E w \in Workers : ConsumeTake(w)
GetWaitTimeEnterStep == \E w \in Workers, n \in 1..capacity : GetWaitTimeEnter(w, n)
GetWaitTimeBodyStep == \E w \in Workers, m \in BOOLEAN : GetWaitTimeBody(w, m)
GetWaitTimeDoneStep == \E w \in Workers : GetWaitTimeDone(w)

NextBucket ==
    \/ Tick
    \/ ConsumeEnterStep
    \/ ConsumeRefillStep
    \/ ConsumeTestStep
    \/ ConsumeTakeStep
    \/ GetWaitTimeEnterStep
    \/ GetWaitTimeBodyStep
    \/ GetWaitTimeDoneStep
    \/ GetBucketStatus

SpecBucket == InitBucket /\ [][NextBucket]_vars

\* ========================================================= FinnhubService
\* FinnhubService() called by the threads of the process (each
\* EnrichmentService.__init__ calls it), one statement per step.

\* constructions a thread makes
MaxConstructions == 2

AllVarsButCtor == <<limVars, enrVars, bktVars, nlpVars, stVars>>

\* __new__: `if cls._instance is None`
CtorNewTest(t) ==
    /\ ctor[t].pc = "idle"
    /\ ctor[t].n < MaxConstructions
    /\ ctor' = [ctor EXCEPT ![t].pc = IF instance = 0 THEN "new_make" ELSE "new_return"]
    /\ UNCHANGED <<instance, client, rate_limiter, made, yielded>>
    /\ UNCHANGED AllVarsButCtor

\* __new__: `cls._instance = super().__new__(cls)`; the new object has the
\* class attribute _client = None and no rate_limiter
CtorNewMake(t) ==
    /\ ctor[t].pc = "new_make"
    /\ instance' = Len(client) + 1
    /\ client' = Append(client, 0)
    /\ rate_limiter' = Append(rate_limiter, 0)
    /\ made' = [made EXCEPT !.objects = @ + 1]
    /\ ctor' = [ctor EXCEPT ![t].pc = "new_return"]
    /\ UNCHANGED yielded
    /\ UNCHANGED AllVarsButCtor

\* __new__: `return cls._instance`, then __init__ is entered with it
CtorNewReturn(t) ==
    /\ ctor[t].pc = "new_return"
    /\ ctor' = [ctor EXCEPT ![t].pc = "init_test", ![t].self = instance]
    /\ UNCHANGED <<instance, client, rate_limiter, made, yielded>>
    /\ UNCHANGED AllVarsButCtor

\* __init__: `if self._client is None`
CtorInitTest(t) ==
    /\ ctor[t].pc = "init_test"
    /\ ctor' = [ctor EXCEPT ![t].pc =
                   IF client[ctor[t].self] = 0 THEN "init_client" ELSE "constructed"]
    /\ UNCHANGED <<instance, client, rate_limiter, made, yielded>>
    /\ UNCHANGED AllVarsButCtor

\* __init__: `self._client = finnhub.Client(...)`; when Client raises,
\* FinnhubService() raises ServiceUnavailableException
CtorInitClient(t, ok) ==
    /\ ctor[t].pc = "init_client"
    /\ IF ok
       THEN /\ made' = [made EXCEPT !.clients = @ + 1]
            /\ client' = [client EXCEPT ![ctor[t].self] = made.clients + 1]
            /\ ctor' = [ctor EXCEPT ![t].pc = "init_limiter"]
       ELSE /\ ctor' = [ctor EXCEPT ![t] = [pc |-> "idle", self |-> 0, n |-> @.n + 1]]
            /\ UNCHANGED <<made, client>>
    /\ UNCHANGED <<instance, rate_limiter, yielded>>
    /\ UNCHANGED AllVarsButCtor

\* __init__: `self.rate_limiter = APIRateLimiter(...)`, a new token bucket
CtorInitLimiter(t) ==
    /\ ctor[t].pc = "init_limiter"
    /\ made' = [made EXCEPT !.limiters = @ + 1]
    /\ rate_limiter' = [rate_limiter EXCEPT ![ctor[t].self] = made.limiters + 1]
    /\ ctor' = [ctor EXCEPT ![t].pc = "constructed"]
    /\ UNCHANGED <<instance, client, yielded>>
    /\ UNCHANGED AllVarsButCtor

\* FinnhubService() returns the object to its caller
CtorReturn(t) ==
    /\ ctor[t].pc = "constructed"
    /\ yielded' = yielded \cup {ctor[t].self}
    /\ ctor' = [ctor EXCEPT ![t] = [pc |-> "idle", self |-> 0, n |-> @.n + 1]]
    /\ UNCHANGED <<instance, client, rate_limiter, made>>
    /\ UNCHANGED AllVarsButCtor

CtorNewTestStep == \E t \in Workers : CtorNewTest(t)
CtorNewMakeStep == \E t \in Workers : CtorNewMake(t)
CtorNewReturnStep == \E t \in Workers : CtorNewReturn(t)
CtorInitTestStep == \E t \in Workers : CtorInitTest(t)
CtorInitClientStep == \E t \in Workers, ok \in BOOLEAN : CtorInitClient(t, ok)
CtorInitLimiterStep == \E t \in Workers : CtorInitLimiter(t)
CtorReturnStep == \E t \in Workers : CtorReturn(t)

InitSingleton == LimiterIdle /\ EnrichIdle

NextSingleton ==
    \/ CtorNewTestStep
    \/ CtorNewMakeStep
    \/ CtorNewReturnStep
    \/ CtorInitTestStep
    \/ CtorInitClientStep
    \/ CtorInitLimiterStep
    \/ CtorReturnStep

SpecSingleton == InitSingleton /\ [][NextSingleton]_vars

\* ============================================================= NLPMatcher
\* NLPMatcher.suggest_correction(word) called on its own with one term.

\* longest term made of TermLetters
MaxTermLen == 3

\* letters the short terms are made of
TermLetters == {"c", "o", "a", "l"}

\* terms with an upper-case letter, a digit, a sign, blanks, or no letter
NamedTerms == {
    <<"G","o","g","l","e">>,
    <<"Z","z","z","z","q","q">>,
    <<" ","g","o","g","l","e"," ">>,
    <<"G","0","g","l","e","!">>,
    <<"A","P","P","L","E">>,
    <<"1","2">>,
    <<" ">> }

\* the terms suggest_correction is called with
Terms == SeqsUpTo(TermLetters, MaxTermLen) \cup NamedTerms

\* suggest_correction is entered with a term
InitMatcher ==
    /\ LimiterIdle
    /\ EnrichOff
    /\ word_arg \in Terms
    /\ corrected = NotReturned

\* suggest_correction returns
SuggestCorrection ==
    /\ corrected = NotReturned
    /\ corrected' = suggest_correction(word_arg)
    /\ UNCHANGED <<word_arg, limVars, enrVars, bktVars, ctorVars, stVars>>

NextMatcher == SuggestCorrection

SpecMatcher == InitMatcher /\ [][NextMatcher]_vars

\* ============================================================ RateLimiter
\* execute_with_rate_limit with every lock of RateLimiter and TokenBucket
\* taken in a step of its own, beside a thread that calls get_bucket_status.
\* The func of these runs returns; what a failing func adds (the backoff
\* sleeps, which hold no lock and touch no bucket) is in Spec.
\* A _refill made under both locks is one step; a _refill made under one lock
\* only (get_bucket_status under RateLimiter._lock, the get_wait_time of
\* execute_with_rate_limit under the bucket lock) is taken one statement at a
\* time.

\* get_bucket_status calls of one run
MaxStatusCalls == 1

\* the workers are about to call execute_with_rate_limit
InitStatus ==
    /\ InitLimiter
    /\ EnrichIdle

\* wait_if_needed: `with self._lock:` entered
WaitLock(w) ==
    /\ pc[w] = "wait"
    /\ rl_lock = 0
    /\ rl_lock' = w
    /\ pc' = [pc EXCEPT ![w] = "wait_locked"]
    /\ UNCHANGED <<capacity, tokens, last_refill, now, attempt, wait_time, wake,
                   slept, calls, consumed, exc, other_failures, callTimes>>
    /\ UNCHANGED <<enrVars, bktVars, ctorVars, nlpVars, stVars>>

\* wait_if_needed: bucket.get_wait_time(tokens) under the bucket lock, then
\* time.sleep(wait_time) with RateLimiter._lock held, or the return
WaitBody(w) ==
    /\ pc[w] = "wait_locked"
    /\ BucketLockFree(bucket_lock)
    /\ tokens' = Refilled(tokens, last_refill, now)
    /\ last_refill' = now
    /\ LET wt == get_wait_time(tokens, last_refill, now, 1) IN
         IF wt > 0
         THEN /\ rl_lock' = rl_lock
              /\ wake' = [wake EXCEPT ![w] = now + wt]
              /\ pc' = [pc EXCEPT ![w] = "wait_sleep"]
         ELSE /\ rl_lock' = 0
              /\ wake' = wake
              /\ pc' = [pc EXCEPT ![w] = "consume"]
    /\ UNCHANGED <<capacity, now, attempt, wait_time, slept, calls, consumed,
                   exc, other_failures, callTimes>>
    /\ UNCHANGED <<enrVars, bktVars, ctorVars, nlpVars, stVars>>

\* RateLimiter.consume: `with self._lock:` entered
ConsumeLock(w) ==
    /\ pc[w] = "consume"
    /\ rl_lock = 0
    /\ rl_lock' = w
    /\ pc' = [pc EXCEPT ![w] = "consume_locked"]
    /\ UNCHANGED <<capacity, tokens, last_refill, now, attempt, wait_time, wake,
                   slept, calls, consumed, exc, other_failures, callTimes>>
    /\ UNCHANGED <<enrVars, bktVars, ctorVars, nlpVars, stVars>>

\* RateLimiter.consume: bucket.consume(1) under the bucket lock, both locks
\* released, and what follows in the attempt: the call of func, the fetch of
\* the wait time, or the raise of the final attempt
ConsumeBody(w) ==
    /\ pc[w] = "consume_locked"
    /\ BucketLockFree(bucket_lock)
    /\ rl_lock' = 0
    /\ tokens' = AfterConsume(tokens, last_refill, now, 1)
    /\ last_refill' = now
    /\ consumed' = [consumed EXCEPT ![w] =
                       @ + TokensTaken(Refilled(tokens, last_refill, now), tokens')]
    /\ IF CanConsume(tokens, last_refill, now, 1)
       THEN /\ calls' = [calls EXCEPT ![w] = @ + 1]
            /\ pc' = [pc EXCEPT ![w] = "in_call"]
            /\ exc' = exc
       ELSE /\ calls' = calls
            /\ IF HasRetry(attempt[w])
               THEN /\ pc' = [pc EXCEPT ![w] = "hit_wait"]
                    /\ exc' = exc
               ELSE /\ pc' = [pc EXCEPT ![w] = "raised"]
                    /\ exc' = [exc EXCEPT ![w] = ConsumeFailure(wait_time[w])]
    /\ UNCHANGED <<capacity, now, attempt, wait_time, wake, slept,
                   other_failures, callTimes>>
    /\ UNCHANGED <<enrVars, bktVars, ctorVars, nlpVars, stVars>>

\* self.rate_limiter._buckets["api"].get_wait_time(1): the bucket lock taken
\* with RateLimiter._lock not held, _refill entered
HitLock(w) ==
    /\ pc[w] = "hit_wait"
    /\ BucketLockFree(bucket_lock)
    /\ bucket_lock' = w
    /\ rf' = [rf EXCEPT ![w].at = "now"]
    /\ pc' = [pc EXCEPT ![w] = "hit_refill"]
    /\ UNCHANGED <<capacity, tokens, last_refill, now, rl_lock, attempt,
                   wait_time, wake, slept, calls, consumed, exc, other_failures, callTimes>>
    /\ UNCHANGED <<tokens_arg, mark, spc, status_calls, enrVars, ctorVars, nlpVars>>

\* get_bucket_status: `with self._lock:` entered, bucket._refill() called
\* with the bucket lock not taken
StatusLock ==
    /\ spc = "idle"
    /\ status_calls < MaxStatusCalls
    /\ rl_lock = 0
    /\ rl_lock' = StatusThread
    /\ spc' = "refill"
    /\ status_calls' = status_calls + 1
    /\ rf' = [rf EXCEPT ![StatusThread].at = "now"]
    /\ UNCHANGED <<capacity, tokens, last_refill, now, pc, attempt, wait_time,
                   wake, slept, calls, consumed, exc, other_failures, callTimes>>
    /\ UNCHANGED <<enrVars, bktVars, ctorVars, nlpVars>>

\* _refill: `now = time.time()`
RefillNow(t) ==
    /\ rf[t].at = "now"
    /\ rf' = [rf EXCEPT ![t].at = "elapsed", ![t].now = now]
    /\ UNCHANGED <<spc, status_calls, limVars, enrVars, bktVars, ctorVars, nlpVars>>

\* _refill: `elapsed = now - self.last_refill` and tokens_to_add
RefillElapsed(t) ==
    /\ rf[t].at = "elapsed"
    /\ rf' = [rf EXCEPT ![t].at = "load", ![t].last = last_refill]
    /\ UNCHANGED <<spc, status_calls, limVars, enrVars, bktVars, ctorVars, nlpVars>>

\* _refill: self.tokens is read for `self.tokens + tokens_to_add`
RefillLoad(t) ==
    /\ rf[t].at = "load"
    /\ rf' = [rf EXCEPT ![t].at = "store", ![t].tok = tokens]
    /\ UNCHANGED <<spc, status_calls, limVars, enrVars, bktVars, ctorVars, nlpVars>>

\* _refill: `self.tokens = min(self.capacity, ...)` is stored
RefillStore(t) ==
    /\ rf[t].at = "store"
    /\ tokens' = Refilled(rf[t].tok, rf[t].last, rf[t].now)
    /\ rf' = [rf EXCEPT ![t].at = "last"]
    /\ UNCHANGED <<capacity, last_refill, now, rl_lock, pc, attempt, wait_time,
                   wake, slept, calls, consumed, exc, other_failures, callTimes>>
    /\ UNCHANGED <<spc, status_calls, enrVars, bktVars, ctorVars, nlpVars>>

\* _refill: `self.last_refill = now`
RefillLast(t) ==
    /\ rf[t].at = "last"
    /\ last_refill' = rf[t].now
    /\ rf' = [rf EXCEPT ![t].at = "done"]
    /\ UNCHANGED <<capacity, tokens, now, rl_lock, pc, attempt, wait_time,
                   wake, slept, calls, consumed, exc, other_failures, callTimes>>
    /\ UNCHANGED <<spc, status_calls, enrVars, bktVars, ctorVars, nlpVars>>

\* get_wait_time(1) after its _refill: 0.0 or tokens_needed / refill_rate,
\* the bucket lock released, then time.sleep(wait_time)
HitCompute(w) ==
    /\ pc[w] = "hit_refill"
    /\ rf[w].at = "done"
    /\ \E wt \in {IF tokens >= TokenUnits(1) THEN 0
                  ELSE (TokenUnits(1) - tokens) \div refill_rate} :
         /\ wait_time' = [wait_time EXCEPT ![w] = wt]
         /\ wake' = [wake EXCEPT ![w] = now + wt]
    /\ bucket_lock' = IF bucket_lock = w THEN 0 ELSE bucket_lock
    /\ rf' = [rf EXCEPT ![w] = NoRefill]
    /\ pc' = [pc EXCEPT ![w] = "hit_sleep"]
    /\ UNCHANGED <<capacity, tokens, last_refill, now, rl_lock, attempt, slept,
                   calls, consumed, exc, other_failures, callTimes>>
    /\ UNCHANGED <<tokens_arg, mark, spc, status_calls, enrVars, ctorVars, nlpVars>>

\* get_bucket_status after bucket._refill(): the status is built and
\* RateLimiter._lock released
StatusReturn ==
    /\ spc = "refill"
    /\ rf[StatusThread].at = "done"
    /\ rl_lock' = IF rl_lock = StatusThread THEN 0 ELSE rl_lock
    /\ spc' = "idle"
    /\ rf' = [rf EXCEPT ![StatusThread] = NoRefill]
    /\ UNCHANGED <<capacity, tokens, last_refill, now, pc, attempt, wait_time,
                   wake, slept, calls, consumed, exc, other_failures, callTimes>>
    /\ UNCHANGED <<status_calls, enrVars, bktVars, ctorVars, nlpVars>>

\* the steps of the _refill in progress in thread t
Refill(t) ==
    \/ RefillNow(t)
    \/ RefillElapsed(t)
    \/ RefillLoad(t)
    \/ RefillStore(t)
    \/ RefillLast(t)

\* the steps of worker w in execute_with_rate_limit
Worker(w) ==
    \/ WaitLock(w)
    \/ WaitBody(w)
    \/ WaitWake(w)
    \/ ConsumeLock(w)
    \/ ConsumeBody(w)
    \/ HitLock(w)
    \/ Refill(w)
    \/ HitCompute(w)
    \/ HitWake(w)
    \/ CallReturns(w)

\* the steps of a get_bucket_status call that has been entered
Status == Refill(StatusThread) \/ StatusReturn

NextStatus ==
    \/ Tick
    \/ \E w \in Workers : Worker(w)
    \/ StatusLock
    \/ Status

SpecStatus == InitStatus /\ [][NextStatus]_vars

\* ------------------------------------------------------------ the locks
\* The same calls with every _refill taken as one step and func free to
\* fail: the locks, the sleeps and the retries of execute_with_rate_limit
\* beside get_bucket_status. Time is what the sleeps take: the clock goes on
\* while a thread sleeps, and the other steps take no time.
TickOn ==
    /\ \E w \in Workers :
          pc[w] \in {"wait_sleep", "hit_sleep", "backoff"} /\ wake[w] > now
    /\ now' = now + 1
    /\ UNCHANGED <<capacity, tokens, last_refill, rl_lock, pc, attempt,
                   wait_time, wake, slept, calls, consumed, exc, other_failures, callTimes>>
    /\ UNCHANGED <<enrVars, bktVars, ctorVars, nlpVars, stVars>>

\* get_wait_time(1) under the bucket lock: _refill, the wait time, the lock
\* released, then time.sleep(wait_time)
HitBody(w) ==
    /\ pc[w] = "hit_refill"
    /\ tokens' = Refilled(tokens, last_refill, now)
    /\ last_refill' = now
    /\ wait_time' = [wait_time EXCEPT ![w] = get_wait_time(tokens, last_refill, now, 1)]
    /\ wake' = [wake EXCEPT ![w] = now + get_wait_time(tokens, last_refill, now, 1)]
    /\ bucket_lock' = IF bucket_lock = w THEN 0 ELSE bucket_lock
    /\ rf' = [rf EXCEPT ![w] = NoRefill]
    /\ pc' = [pc EXCEPT ![w] = "hit_sleep"]
    /\ UNCHANGED <<capacity, now, rl_lock, attempt, slept, calls, consumed,
                   exc, other_failures, callTimes>>
    /\ UNCHANGED <<tokens_arg, mark, spc, status_calls, enrVars, ctorVars, nlpVars>>

\* get_bucket_status under RateLimiter._lock: bucket._refill(), the status
\* built, the lock released
StatusBody ==
    /\ spc = "refill"
    /\ tokens' = Refilled(tokens, last_refill, now)
    /\ last_refill' = now
    /\ rl_lock' = IF rl_lock = StatusThread THEN 0 ELSE rl_lock
    /\ spc' = "idle"
    /\ rf' = [rf EXCEPT ![StatusThread] = NoRefill]
    /\ UNCHANGED <<capacity, now, pc, attempt, wait_time, wake, slept, calls,
                   consumed, exc, other_failures, callTimes>>
    /\ UNCHANGED <<status_calls, enrVars, bktVars, ctorVars, nlpVars>>

\* the steps of worker w in execute_with_rate_limit
Caller(w) ==
    \/ WaitLock(w)
    \/ WaitBody(w)
    \/ WaitWake(w)
    \/ ConsumeLock(w)
    \/ ConsumeBody(w)
    \/ HitLock(w)
    \/ HitBody(w)
    \/ HitWake(w)
    \/ CallReturns(w)
    \/ \E e \in FuncErrors : CallRaises(w, e)
    \/ BackoffWake(w)

NextLocks ==
    \/ TickOn
    \/ \E w \in Workers : Caller(w)
    \/ StatusLock
    \/ StatusBody

\* every thread that can take a step takes one, func returns or raises, and
\* the clock goes on
FairLocks ==
    /\ WF_vars(TickOn)
    /\ \A w \in Workers : WF_vars(Caller(w))
    /\ WF_vars(StatusBody)

SpecLocks == InitStatus /\ [][NextLocks]_vars /\ FairLocks

\* ============================================= lookup_symbol on the limiter
\* One lookup_symbol invocation, made by enrich_single_company in thread
\* Resolver, with each _make_api_call run through execute_with_rate_limit
\* lock by lock, beside another thread that is inside execute_with_rate_limit
\* for a call of its own and takes tokens from the same bucket. The api may
\* fail the resolver's calls; the other thread's call returns.
Resolver == 1

\* the limiter as FinnhubService.__init__ made it; the resolver is not inside
\* execute_with_rate_limit, the other workers are about to enter it
InitLookup ==
    /\ capacity \in 1..MaxCapacity
    /\ tokens = TokenUnits(capacity)
    /\ last_refill = 0
    /\ now = 0
    /\ rl_lock = 0
    /\ pc = [w \in Workers |-> IF w = Resolver THEN "idle" ELSE "wait"]
    /\ attempt = [w \in Workers |-> 0]
    /\ wait_time = [w \in Workers |-> Unbound]
    /\ wake = [w \in Workers |-> 0]
    /\ slept = [w \in Workers |-> 0]
    /\ calls = [w \in Workers |-> 0]
    /\ consumed = [w \in Workers |-> 0]
    /\ exc = [w \in Workers |-> "none"]
    /\ other_failures = [w \in Workers |-> Untracked]
    /\ callTimes = <<>>
    /\ BucketIdle
    /\ CtorIdle
    /\ StatusIdle
    /\ SingleEntered

\* lookup_symbol: the word the attempt in progress searches for
WordNow == SearchWords[df[1].Name, attempt_num[1]]

\* lookup_symbol calls self._make_api_call("symbol_lookup", search_word),
\* which enters execute_with_rate_limit: a new loop, wait_time unassigned
MakeApiCall ==
    /\ epc = "single"
    /\ tpc[1] = "running"
    /\ pc[Resolver] = "idle"
    /\ WordNow # None
    /\ pc' = [pc EXCEPT ![Resolver] = "wait"]
    /\ attempt' = [attempt EXCEPT ![Resolver] = 0]
    /\ wait_time' = [wait_time EXCEPT ![Resolver] = Unbound]
    /\ exc' = [exc EXCEPT ![Resolver] = "none"]
    /\ UNCHANGED <<capacity, tokens, last_refill, now, rl_lock, wake, slept,
                   calls, consumed, other_failures, callTimes>>
    /\ UNCHANGED <<enrVars, bktVars, ctorVars, nlpVars, stVars>>

\* lookup_symbol: an attempt with no usable correction makes no api call
SkipAttempt ==
    /\ epc = "single"
    /\ pc[Resolver] = "idle"
    /\ WordNow = None
    /\ LookupAttempt(1, [kind |-> "empty", first |-> None])

\* what _make_api_call hands to lookup_symbol when execute_with_rate_limit
\* ended at p with exception e: the response (with or without a result), the
\* APIRateLimitException re-raised, or ServiceUnavailableException in place
\* of any other exception
MakeApiCallEnds(p, e) ==
    IF p = "returned"
    THEN {[kind |-> "match", first |-> r] : r \in ApiFirstResults}
         \cup {[kind |-> "empty", first |-> None]}
    ELSE IF e = "rate_limit" THEN {[kind |-> "rate_limit", first |-> None]}
    ELSE {[kind |-> "error", first |-> None]}

\* execute_with_rate_limit has returned or raised: _make_api_call ends and
\* lookup_symbol finishes the attempt
ApiCallEnds ==
    /\ epc = "single"
    /\ pc[Resolver] \in {"returned", "raised"}
    /\ \E o \in MakeApiCallEnds(pc[Resolver], exc[Resolver]) : LookupBody(1, o)
    /\ pc' = [pc EXCEPT ![Resolver] = "idle"]
    /\ UNCHANGED <<capacity, tokens, last_refill, now, rl_lock, attempt,
                   wait_time, wake, slept, calls, consumed, exc, other_failures,
                   callTimes>>

\* the steps of thread w inside execute_with_rate_limit
LimiterCall(w) ==
    \/ WaitLock(w)
    \/ WaitBody(w)
    \/ WaitWake(w)
    \/ ConsumeLock(w)
    \/ ConsumeBody(w)
    \/ HitLock(w)
    \/ HitBody(w)
    \/ HitWake(w)
    \/ CallReturns(w)
    \/ \E e \in FuncErrors : w = Resolver /\ CallRaises(w, e)
    \/ BackoffWake(w)

\* the steps of lookup_symbol and enrich_single_company around the api calls
LookupSymbol ==
    \/ SingleStartStep
    \/ MakeApiCall
    \/ SkipAttempt
    \/ ApiCallEnds
    \/ EnrichSingleReturn

NextLookup ==
    \/ LookupSymbol
    \/ TickOn
    \/ \E w \in Workers : LimiterCall(w)

SpecLookup == InitLookup /\ [][NextLookup]_vars

\* ------------------------------------------------------------ termination
\* A run is either enrich_single_company, whose lookup_symbol goes through
\* execute_with_rate_limit lock by lock (SpecLookup), or enrich_csv_file,
\* where each _make_api_call of a task is one step. Every thread that can
\* take a step takes one, a call of the api returns or fails, and the clock
\* goes on while a thread sleeps.

\* no thread is inside execute_with_rate_limit
InitBatch ==
    /\ capacity = 1
    /\ tokens = TokenUnits(1)
    /\ last_refill = 0
    /\ now = 0
    /\ rl_lock = 0
    /\ pc = [w \in Workers |-> "idle"]
    /\ attempt = [w \in Workers |-> 0]
    /\ wait_time = [w \in Workers |-> Unbound]
    /\ wake = [w \in Workers |-> 0]
    /\ slept = [w \in Workers |-> 0]
    /\ calls = [w \in Workers |-> 0]
    /\ consumed = [w \in Workers |-> 0]
    /\ exc = [w \in Workers |-> "none"]
    /\ other_failures = [w \in Workers |-> Untracked]
    /\ callTimes = <<>>
    /\ BucketIdle
    /\ CtorIdle
    /\ StatusIdle
    /\ EnrichEntered

InitRun == InitLookup \/ InitBatch

\* the steps of enrich_csv_file and of its tasks
EnrichCsvFile ==
    /\ epc # "single"
    /\ NextEnrich

NextRun ==
    \/ LookupSymbol
    \/ TickOn
    \/ \E w \in Workers : LimiterCall(w)
    \/ EnrichCsvFile

FairRun ==
    /\ WF_vars(LookupSymbol)
    /\ WF_vars(TickOn)
    /\ \A w \in Workers : WF_vars(LimiterCall(w))
    /\ WF_vars(EnrichCsvFile)

SpecRun == InitRun /\ [][NextRun]_vars /\ FairRun

\* --------------------------------------------------------- specifications
Init == InitLimiter /\ EnrichIdle

Spec == Init /\ [][Next]_vars

InitRetry == InitTallied /\ EnrichIdle

SpecRetry == InitRetry /\ [][Next]_vars

\* ================================================================= claims
\* C1: whatever consume, get_wait_time and refill steps the workers interleave
\* at non-decreasing clock readings, the bucket holds 0 <= tokens <= capacity.
C1_TokensWithinCapacity == 0 <= tokens /\ tokens <= CapacityUnits

\* a token was consumed and later refills brought the bucket back to its cap
C1_Witness ==
    /\ \E w \in Workers : consumed[w] >= 1
    /\ last_refill > 0
    /\ tokens = CapacityUnits

\* C2: the calls of func started in any window of length T number at most
\* capacity + refill_rate * T (counted in token units); with capacity 1 the
\* second call starts no sooner than one token period after the first.
C2_RateWindow ==
    /\ \A i, j \in 1..Len(callTimes) :
          i <= j => TokenUnits(j - i + 1)
                      <= CapacityUnits + (callTimes[j] - callTimes[i]) * refill_rate
    /\ (capacity = 1 /\ Len(callTimes) >= 2)
          => callTimes[2] - callTimes[1] >= TicksPerToken

\* capacity 1, both workers called func once each, the second exactly one
\* token period after the first
C2_Witness ==
    /\ capacity = 1
    /\ Len(callTimes) = 2
    /\ \A w \in Workers : calls[w] = 1
    /\ callTimes[2] = callTimes[1] + TicksPerToken

\* C3: one invocation of execute_with_rate_limit calls func at most
\* retry_attempts = 3 times.
C3_AtMostThreeCalls == \A w \in Workers : calls[w] <= retry_attempts

\* an invocation that called func three times and failed each time
C3_Witness ==
    \E w \in Workers : calls[w] = retry_attempts /\ pc[w] = "raised"

\* C4 as stated: an invocation that returns a result consumed at most one
\* token.
C4_AtMostOneTokenPerResult ==
    \A w \in Workers : pc[w] = "returned" => consumed[w] <= 1

\* C4 amended: an invocation that returns a result consumed exactly one token
\* for each call of func it made, failed calls included: between 1 and 3.
C4_OneTokenPerCall ==
    \A w \in Workers :
        pc[w] = "returned" =>
            /\ consumed[w] = calls[w]
            /\ 1 <= consumed[w]
            /\ consumed[w] <= retry_attempts

\* an invocation returned a result on its third call, three tokens consumed
C4_Witness ==
    \E w \in Workers : pc[w] = "returned" /\ calls[w] = 3 /\ consumed[w] = 3

\* C5: one invocation of lookup_symbol calls _make_api_call at most
\* max_attempts = 3 times, and a match ends it: a "success" entry is the last
\* entry of the trace and lookup_symbol has returned.
C5_AtMostThreeLookups ==
    \A i \in 1..Len(df) :
        /\ lookups[i] <= max_attempts
        /\ \A n \in 1..Len(attempts[i]) :
              attempts[i][n].status = "success" =>
                  /\ n = Len(attempts[i])
                  /\ tpc[i] = "ended"
                  /\ lres[i].kind = "returned"

\* a lookup that made three calls and found its match on the third
C5_Witness ==
    \E i \in 1..Len(df) :
        /\ tpc[i] = "ended"
        /\ lookups[i] = max_attempts
        /\ attempts[i][Len(attempts[i])].status = "success"
        /\ attempts[i][Len(attempts[i])].attempt = max_attempts

\* C6: the statistics enrich_csv_file returns satisfy rows_updated +
\* rows_failed = rows_processed and rows_processed <= number of input rows;
\* the running counters stay within the same bound.
C6_StatisticsAddUp ==
    /\ result.rows_updated + result.rows_failed = result.rows_processed
    /\ result.rows_processed <= Len(df)
    /\ 0 <= result.rows_updated /\ 0 <= result.rows_failed
    /\ rows_updated <= rows_processed
    /\ rows_processed <= Len(df)

\* a completed run over three rows of which two were processed
C6_Witness ==
    /\ epc = "done"
    /\ result.message = "completed"
    /\ Len(df) = 3
    /\ result.rows_processed = 2

\* C7: a row that carries a non-empty Symbol is never submitted, no lookup is
\* made for it, it is written to the output with that Symbol, it is not
\* counted, and no step changes it.
C7_CarriedSymbolUntouched ==
    /\ [](\A i \in 1..Len(df) :
             (Truthy(df[i].Symbol) /\ i \notin merged) =>
                 /\ tpc[i] = "none"
                 /\ lookups[i] = 0
                 /\ attempts[i] = <<>>
                 /\ \A k \in 1..Len(futures) : futures[k] # i
                 /\ (output.exists /\ output.rows # <<>>)
                       => output.rows[i].Symbol = df[i].Symbol.val)
    /\ [](rows_processed = Cardinality(merged))
    /\ [][\A i \in 1..Len(df) :
             (Truthy(df[i].Symbol) /\ i \notin merged) =>
                 (df'[i] = df[i] /\ i \notin merged')]_vars

\* a completed run that processed a row and wrote the carried MSFT of
\* another row to the output
C7_Witness ==
    /\ epc = "done"
    /\ result.message = "completed"
    /\ result.rows_processed >= 1
    /\ \E i \in 1..Len(df) :
          /\ i \notin merged
          /\ df[i].Symbol = Str(<<"M","S","F","T">>)
          /\ output.rows[i].Symbol = <<"M","S","F","T">>

\* C8: when lookup_symbol returns (s, description) for a row, the task hands
\* s to the merge, and the merge writes s to the row's Symbol and adds 1 to
\* rows_updated.
C8_SuccessUpdatesRow ==
    [][\A i \in 1..Len(df) :
          /\ (tpc[i] = "ended" /\ lres[i].kind = "returned" /\ tpc'[i] = "done")
                => tres'[i] = Str(lres[i].value.val)
          /\ (tpc[i] = "done" /\ Truthy(tres[i]) /\ tpc'[i] = "merged")
                => (df'[i].Symbol = tres[i] /\ rows_updated' = rows_updated + 1)]_vars

\* C9 as stated: when every answer to a row's lookups was empty,
\* lookup_symbol ends with SymbolNotFoundException and a trace of 3 entries.
C9_ThreeAttemptsRecorded ==
    \A i \in 1..Len(df) :
        (/\ tpc[i] = "ended"
         /\ lookups[i] >= 1
         /\ \A n \in 1..Len(attempts[i]) : attempts[i][n].status = "no_results")
        => (/\ lres[i] = Raised("SymbolNotFoundException")
            /\ Len(attempts[i]) = 3)

\* C9 amended: when every answer to a row's lookups was empty, lookup_symbol
\* ends with SymbolNotFoundException and a trace of one entry per call made:
\* 3 when the corrector proposes a word that differs from the original, 1
\* when it proposes none or the same word. The task then returns no symbol,
\* and the merge leaves the row's Symbol absent and counts the row as
\* processed and not updated.
C9_OneEntryPerLookup ==
    /\ [](\A i \in 1..Len(df) :
             (/\ tpc[i] = "ended"
              /\ lookups[i] >= 1
              /\ \A n \in 1..Len(attempts[i]) : attempts[i][n].status = "no_results")
             => LET orig == OriginalSymbol(FirstToken(PyStr(df[i].Name)))
                    differs == /\ Truthy(Corrections[orig])
                               /\ Lower(Corrections[orig].val) # Lower(orig)
                IN  /\ lres[i] = Raised("SymbolNotFoundException")
                    /\ Len(attempts[i]) = lookups[i]
                    /\ Len(attempts[i]) = IF differs THEN 3 ELSE 1)
    /\ [][\A i \in 1..Len(df) :
             /\ (/\ tpc[i] = "ended"
                 /\ lres[i] = Raised("SymbolNotFoundException")
                 /\ tpc'[i] = "done")
                   => tres'[i] = None
             /\ (tpc[i] = "done" /\ tres[i] = None /\ tpc'[i] = "merged")
                   => (/\ IsNa(df'[i].Symbol)
                       /\ rows_processed' = rows_processed + 1
                       /\ rows_updated' = rows_updated)]_vars

\* two lookups ended by empty answers only: one after a single call, one
\* after three
C9_Witness ==
    \E i, j \in 1..Len(df) :
        /\ tpc[i] = "ended" /\ tpc[j] = "ended"
        /\ lres[i] = Raised("SymbolNotFoundException")
        /\ lres[j] = Raised("SymbolNotFoundException")
        /\ Len(attempts[i]) = 1 /\ Len(attempts[j]) = 3
        /\ \A n \in 1..1 : attempts[i][n].status = "no_results"
        /\ \A n \in 1..3 : attempts[j][n].status = "no_results"

\* C10: a lookup that raises does not end the run: process_row returns no
\* symbol for the row, the merge leaves the row's Symbol absent and counts
\* the row as processed and not updated, and a run that completes has merged
\* every row that lacks a symbol and has a name.
C10_RowFailureIsContained ==
    /\ [][\A i \in 1..Len(df) :
             /\ (tpc[i] = "ended" /\ lres[i].kind = "raised" /\ tpc'[i] = "done")
                   => (tres'[i] = None /\ epc' = epc /\ result' = result)
             /\ (tpc[i] = "done" /\ tres[i] = None /\ tpc'[i] = "merged")
                   => (/\ IsNa(df'[i].Symbol)
                       /\ rows_processed' = rows_processed + 1
                       /\ rows_updated' = rows_updated
                       /\ epc' = epc)]_vars
    /\ []((epc = "done" /\ result.message = "completed") =>
             /\ \A i \in 1..Len(df) : Selected(df[i]) => i \in merged
             /\ result.rows_processed = Cardinality(merged)
             /\ result.rows_failed = result.rows_processed - result.rows_updated)

\* the first page was merged and flushed with both its rows processed, and a
\* lookup of the second page has just raised
C10_Witness ==
    /\ page = 1
    /\ flushes = 1
    /\ rows_processed = 2
    /\ \E i \in 1..Len(df) :
          /\ tpc[i] = "ended"
          /\ lres[i] \in {Raised("SymbolNotFoundException"),
                          Raised("APIRateLimitException")}

C12_SuccessIffMatch ==
    epc = "done" =>
       IF lres[1].kind = "returned"
       THEN response = [symbol |-> Str(lres[1].value.val), success |-> TRUE,
                        confidence |-> 1]
       ELSE response = [symbol |-> None, success |-> FALSE, confidence |-> 0]

\* C13: a task whose lookup_symbol raised APIRateLimitException never hands
\* its row back with the symbol None of a name that was not found: the
\* exception reaches the caller of the resolution.
C13_RateLimitPropagates ==
    [][\A i \in 1..Len(df) :
          (tpc[i] = "ended" /\ lres[i].exc = "APIRateLimitException")
             => ~(tpc'[i] = "done" /\ tres'[i] = None)]_vars

\* C14: when the api call of attempt k of lookup_symbol fails with
\* APIRateLimitException (the trace then ends with the "tried" entry of that
\* attempt), lookup_symbol has ended raising that exception, and from then on
\* the task makes no further lookup and its outcome is not replaced.
C14_RateLimitAborts ==
    /\ [](\A i \in 1..Len(df) :
            (attempts[i] # <<>> /\ attempts[i][Len(attempts[i])].status = "tried")
               => /\ lres[i] = Raised("APIRateLimitException")
                  /\ tpc[i] = "ended"
                  /\ lookups[i] = attempts[i][Len(attempts[i])].attempt)
    /\ [][\A i \in 1..Len(df) :
            lres[i].exc = "APIRateLimitException"
               => /\ lookups'[i] <= lookups[i]
                  /\ lres'[i] = lres[i] \/ tpc'[i] = "done"]_vars

\* a lookup that was rate limited at its third attempt, after two searches
\* without results
C14_Witness ==
    \E i \in 1..Len(df) :
       /\ lookups[i] = 3
       /\ Len(attempts[i]) = 3
       /\ attempts[i][3].status = "tried"
       /\ lres[i] = Raised("APIRateLimitException")

\* C15: for a csv without rows, or without the Name or the Symbol column,
\* enrich_csv_file submits no task, makes no lookup and writes no output, and
\* it returns the result that names the defect with all three counts 0.
C15_MalformedInputShortCircuits ==
    (Len(df) = 0 \/ ~hasColumns) =>
       /\ epc \in {"start", "done"}
       /\ output = NoFile
       /\ flushes = 0
       /\ \A i \in 1..Len(df) : tpc[i] = "none" /\ lookups[i] = 0 /\ attempts[i] = <<>>
       /\ epc = "done" =>
             /\ result.message = (IF Len(df) = 0 THEN "empty" ELSE "missing columns")
             /\ result.rows_processed = 0
             /\ result.rows_updated = 0
             /\ result.rows_failed = 0

\* enrich_csv_file has returned for a csv with one row and a missing column
C15_Witness ==
    /\ epc = "done"
    /\ ~hasColumns
    /\ Len(df) = 1
    /\ result.message = "missing columns"

C17_ConsumeIsAtomic ==
    /\ [](/\ tokens >= 0
          /\ \A w \in Workers :
                pc[w] = "c_granted" => tokens >= TokenUnits(tokens_arg[w])
          /\ \A w1, w2 \in Workers :
                (/\ pc[w1] \in {"c_locked", "c_refilled", "c_granted", "g_locked"}
                 /\ pc[w2] \in {"c_locked", "c_refilled", "c_granted", "g_locked"})
                   => w1 = w2)
    /\ [][\A w \in Workers :
            /\ (pc[w] = "c_locked" /\ pc'[w] # "c_locked")
                  => /\ pc'[w] = "c_refilled"
                     /\ tokens' = Min(CapacityUnits,
                                       tokens + (now - last_refill) * refill_rate)
                     /\ last_refill' = now
            /\ (pc[w] = "c_refilled" /\ pc'[w] # "c_refilled")
                  => /\ tokens' = tokens
                     /\ pc'[w] = (IF tokens >= TokenUnits(tokens_arg[w])
                                  THEN "c_granted" ELSE "idle")
            /\ (pc[w] = "c_granted" /\ pc'[w] # "c_granted")
                  => /\ pc'[w] = "idle"
                     /\ tokens' = tokens - TokenUnits(tokens_arg[w])]_vars

\* a consumer has been granted the last token of a bucket from which a token
\* was taken before
C17_Witness ==
    /\ pc[1] = "c_granted"
    /\ tokens_arg[1] = 1
    /\ tokens = TokenUnits(1)
    /\ pc[2] = "idle"
    /\ mark.tokens < CapacityUnits

\* C18: get_wait_time(n) leaves tokens and last_refill as they were, and
\* returns 0 when n tokens are available and (n - tokens) / refill_rate
\* otherwise.
C18_GetWaitTimeNonMutating ==
    [][\A w \in Workers :
          (pc[w] = "g_locked" /\ pc'[w] = "g_returned")
             => /\ tokens' = tokens
                /\ last_refill' = last_refill
                /\ wait_time'[w] =
                      (IF tokens' >= TokenUnits(tokens_arg[w]) THEN 0
                       ELSE (TokenUnits(tokens_arg[w]) - tokens') \div refill_rate)]_vars

\* C18 as the code has it: get_wait_time(n) refills the bucket to the current
\* instant, takes no token, and returns 0 when n tokens are available after
\* the refill and (n - tokens) / refill_rate otherwise.
C18_GetWaitTimeRefills ==
    [][\A w \in Workers :
          (pc[w] = "g_locked" /\ pc'[w] = "g_returned")
             => /\ tokens' = Min(CapacityUnits,
                                  tokens + (now - last_refill) * refill_rate)
                /\ tokens' >= tokens
                /\ last_refill' = now
                /\ wait_time'[w] =
                      (IF tokens' >= TokenUnits(tokens_arg[w]) THEN 0
                       ELSE (TokenUnits(tokens_arg[w]) - tokens') \div refill_rate)]_vars

\* get_wait_time has returned a positive wait after its refill added tokens
C18_Witness ==
    \E w \in Workers :
       /\ pc[w] = "g_returned"
       /\ wait_time[w] > 0
       /\ last_refill = now
       /\ tokens > mark.tokens

C20_OneInstanceOneBucket ==
    /\ Cardinality(yielded) <= 1
    /\ made.objects <= 1
    /\ made.clients <= 1
    /\ made.limiters <= 1

C22_FinalConsumeFailureIsRateLimit ==
    /\ [][\A w \in Workers :
            (pc[w] = "consume" /\ pc'[w] = "raised") =>
                /\ attempt[w] = retry_attempts - 1
                /\ exc'[w] = "rate_limit"
                /\ wait_time[w] # Unbound]_vars
    /\ [][\A w \in Workers :
            (pc[w] = "consume" /\ pc'[w] \notin {"consume", "raised", "in_call"}) =>
                /\ attempt[w] < retry_attempts - 1
                /\ pc'[w] = "hit_wait"
                /\ calls'[w] = calls[w]]_vars

\* C23 as stated: after func raised a non-rate-limit error on attempt a < 2
\* the invocation sleeps retry_delay * 2^a seconds.
C23_OtherFailureBackoffDoubles ==
    [][\A w \in Workers :
          (/\ pc[w] = "in_call" /\ pc'[w] # "in_call"
           /\ attempt[w] < retry_attempts - 1
           /\ CallRaises(w, "other")) =>
              slept'[w] = retry_delay * (2 ^ attempt[w])]_vars

\* C23 amended: after func raised a non-rate-limit error on attempt a < 2 the
\* invocation sleeps the base delay retry_delay = 1 s, after the first failure
\* and after the second alike.
C23_OtherFailureBackoffIsBase ==
    [][\A w \in Workers :
          (/\ pc[w] = "in_call" /\ pc'[w] # "in_call"
           /\ attempt[w] < retry_attempts - 1
           /\ CallRaises(w, "other")) =>
              /\ pc'[w] = "backoff"
              /\ slept'[w] = retry_delay
              /\ wake'[w] = now + SleepTicks(retry_delay)]_vars

\* the second call of func raised a non-rate-limit error, and the invocation
\* sleeps 1 s, not 2 s, before its third attempt
C23_Witness ==
    \E w \in Workers :
        /\ pc[w] = "backoff"
        /\ attempt[w] = 1
        /\ calls[w] = 2
        /\ slept[w] = retry_delay

\* C24 as stated: when func raised a non-rate-limit error on all 3 attempts
\* the invocation ends with APIRateLimitException.
C24_ExhaustionIsRateLimit ==
    \A w \in Tallied :
        (pc[w] = "raised" /\ other_failures[w] = retry_attempts) =>
            exc[w] = "rate_limit"

\* C24 amended: when func raised a non-rate-limit error on all 3 attempts the
\* invocation ends with the error func raised on the third, of func's own
\* type, after 3 calls and 3 tokens.
C24_ExhaustionReraisesOwnError ==
    \A w \in Tallied :
        (pc[w] = "raised" /\ other_failures[w] = retry_attempts) =>
            /\ exc[w] = "other"
            /\ calls[w] = retry_attempts
            /\ consumed[w] = retry_attempts

\* an invocation ended after func raised a non-rate-limit error three times
C24_Witness ==
    \E w \in Tallied : pc[w] = "raised" /\ other_failures[w] = retry_attempts

\* C25 as stated: attempt 1 of lookup_symbol searches the original first
\* token; attempt k > 1 is a skip when the corrector gives no correction or the
\* original word in another case: no lookup call, the skip recorded in the
\* trace, SymbolNotFoundException when k = 3; otherwise the corrected word is
\* searched.
C25_SkipIsRecorded ==
    [][\A i \in 1..Len(df) :
          (tpc[i] = "running" /\ (attempt_num'[i] # attempt_num[i] \/ tpc'[i] = "ended")) =>
              LET k == attempt_num[i]
                  orig == OriginalSymbol(FirstToken(PyStr(df[i].Name)))
                  skip == /\ k > 1
                          /\ \/ ~Truthy(Corrections[orig])
                             \/ Lower(Corrections[orig].val) = Lower(orig)
                  term == IF k = 1 THEN orig ELSE Corrections[orig].val
              IN  IF skip
                  THEN /\ lookups'[i] = lookups[i]
                       /\ Len(attempts'[i]) = Len(attempts[i]) + 1
                       /\ attempts'[i][Len(attempts'[i])].attempt = k
                       /\ IF k = max_attempts
                          THEN lres'[i] = Raised("SymbolNotFoundException")
                          ELSE lres'[i] = Pending /\ attempt_num'[i] = k + 1
                  ELSE /\ lookups'[i] = lookups[i] + 1
                       /\ Len(attempts'[i]) > Len(attempts[i])
                       /\ \A n \in (Len(attempts[i]) + 1)..Len(attempts'[i]) :
                             /\ attempts'[i][n].attempt = k
                             /\ attempts'[i][n].word = term]_vars

\* C25 amended: the same, except that a skip leaves the trace as it was (the
\* skip is only logged).
C25_SkipLeavesTrace ==
    [][\A i \in 1..Len(df) :
          (tpc[i] = "running" /\ (attempt_num'[i] # attempt_num[i] \/ tpc'[i] = "ended")) =>
              LET k == attempt_num[i]
                  orig == OriginalSymbol(FirstToken(PyStr(df[i].Name)))
                  skip == /\ k > 1
                          /\ \/ ~Truthy(Corrections[orig])
                             \/ Lower(Corrections[orig].val) = Lower(orig)
                  term == IF k = 1 THEN orig ELSE Corrections[orig].val
              IN  IF skip
                  THEN /\ lookups'[i] = lookups[i]
                       /\ attempts'[i] = attempts[i]
                       /\ IF k = max_attempts
                          THEN lres'[i] = Raised("SymbolNotFoundException")
                          ELSE lres'[i] = Pending /\ attempt_num'[i] = k + 1
                  ELSE /\ lookups'[i] = lookups[i] + 1
                       /\ Len(attempts'[i]) > Len(attempts[i])
                       /\ \A n \in (Len(attempts[i]) + 1)..Len(attempts'[i]) :
                             /\ attempts'[i][n].attempt = k
                             /\ attempts'[i][n].word = term]_vars

\* lookup_symbol searched the original word once, found nothing, skipped
\* attempts 2 and 3 for want of a different correction and raised
\* SymbolNotFoundException with a trace of the one lookup
C25_Witness ==
    /\ Len(df) = 1
    /\ tpc[1] = "ended"
    /\ lres[1] = Raised("SymbolNotFoundException")
    /\ lookups[1] = 1
    /\ attempts[1] =
          <<Entry(1, OriginalSymbol(FirstToken(PyStr(df[1].Name))), "no_results")>>

\* C26: when the api call of attempt k of lookup_symbol raises an error other
\* than a rate limit (the ServiceUnavailableException of _make_api_call), an
\* "error" entry for attempt k and the searched word is appended to the trace;
\* for k < 3 lookup_symbol goes on with attempt k + 1, for k = 3 it raises
\* SymbolNotFoundException with the whole trace; lookup_symbol never ends with
\* ServiceUnavailableException.
C26_UnexpectedErrorRecorded ==
    /\ [][\A i \in 1..Len(df) :
            LookupAttempt(i, [kind |-> "error", first |-> None]) =>
                LET k == attempt_num[i]
                    n == Len(attempts'[i])
                IN  /\ n = Len(attempts[i]) + 2
                    /\ SubSeq(attempts'[i], 1, Len(attempts[i])) = attempts[i]
                    /\ attempts'[i][n].status = "error"
                    /\ attempts'[i][n].attempt = k
                    /\ attempts'[i][n].word = attempts'[i][n - 1].word
                    /\ attempts'[i][n - 1] = Entry(k, attempts'[i][n].word, "tried")
                    /\ IF k < max_attempts
                       THEN /\ tpc'[i] = "running"
                            /\ lres'[i] = Pending
                            /\ attempt_num'[i] = k + 1
                       ELSE /\ tpc'[i] = "ended"
                            /\ lres'[i] = Raised("SymbolNotFoundException")]_vars
    /\ [](\A i \in 1..Len(df) : lres[i].exc # "ServiceUnavailableException")

\* the api call raised an error on the third attempt, with the corrected word:
\* lookup_symbol ended in SymbolNotFoundException and the trace ends with the
\* error entry of attempt 3
C26_Witness ==
    /\ Len(df) = 1
    /\ tpc[1] = "ended"
    /\ lres[1] = Raised("SymbolNotFoundException")
    /\ attempts[1] # <<>>
    /\ attempts[1][Len(attempts[1])].status = "error"
    /\ attempts[1][Len(attempts[1])].attempt = max_attempts
    /\ attempts[1][Len(attempts[1])].word
          # OriginalSymbol(FirstToken(PyStr(df[1].Name)))

\* C27: once df.to_csv has failed after page p, no later page is processed (no
\* task is submitted, no lookup made: the rows after page p stay untouched),
\* and the failure result reports the statistics accumulated through page p:
\* the rows processed, updated and failed so far.
C27_FlushFailureReportsStatistics ==
    result.message = "error" =>
        /\ epc = "done"
        /\ \A i \in 1..Len(df) :
              /\ tpc[i] \notin {"queued", "running", "ended", "done"}
              /\ i > PageLast(page) => tpc[i] = "none" /\ lookups[i] = 0
        /\ result.rows_processed = rows_processed
        /\ result.rows_updated = rows_updated
        /\ result.rows_failed = rows_processed - rows_updated

\* C28 as stated: within a page the results are merged in ascending order of
\* row index: when the result of row i is merged, every task of the page with
\* a smaller row index has been merged already.
C28_MergedInRowOrder ==
    [][\A i \in 1..Len(df) :
          (i \notin merged /\ i \in merged') =>
              \A k \in 1..Len(futures) : futures[k] < i => futures[k] \in merged]_vars

\* C28 amended: within a page the results are merged in the order the tasks
\* complete; each result is written to the row its task was submitted for and
\* to no other row, so the merged rows are the same whatever that order is.
C28_MergedIntoOwnRow ==
    [][\A i \in 1..Len(df) :
          (i \notin merged /\ i \in merged') =>
              /\ tpc[i] = "done"
              /\ \E k \in 1..Len(futures) : futures[k] = i
              /\ df'[i] = [Name |-> df[i].Name, Symbol |-> tres[i]]
              /\ \A j \in 1..Len(df) : j # i => df'[j] = df[j]
              /\ merged' = merged \cup {i}]_vars

\* both tasks of a page have completed, and the result of the second row has
\* been merged while that of the first row has not
C28_Witness ==
    \E i, j \in 1..Len(df) :
        /\ i < j
        /\ \E k, l \in 1..Len(futures) : futures[k] = i /\ futures[l] = j
        /\ tpc[i] = "done"
        /\ i \notin merged
        /\ tpc[j] = "merged"
        /\ j \in merged

\* C29: at most `threads` tasks are being run at any instant (never more than
\* the pool was made for); the submit loop of a page submits one task for each
\* selected row of the page and nothing else; and every task in flight belongs
\* to the current page: page N + 1 is entered only when every task of page N
\* has completed and been merged and the flush of page N has been done.
C29_PoolBoundAndPageBarrier ==
    /\ [](/\ Cardinality(Running) <= max_workers
          /\ max_workers <= threads
          /\ \A i \in 1..Len(df) :
                tpc[i] \in {"queued", "running", "ended", "done"} =>
                    /\ epc = "collect"
                    /\ PageFirst(page) <= i
                    /\ i <= PageLast(page)
                    /\ flushes = page)
    /\ [][(epc = "submit" /\ epc' = "collect") =>
            /\ \A k, l \in 1..Len(futures') : futures'[k] = futures'[l] => k = l
            /\ {futures'[k] : k \in 1..Len(futures')}
                  = {i \in PageFirst(page)..PageLast(page) : Selected(df[i])}
            /\ \A i \in 1..Len(df) :
                  i < PageFirst(page) => tpc[i] \in {"none", "merged"}]_vars
    /\ [][page' # page =>
            /\ page' = page + 1
            /\ \A k \in 1..Len(futures) : tpc[futures[k]] = "merged"
            /\ flushes' = page'
            /\ output' = [exists |-> TRUE, rows |-> ToCsv(df)]]_vars

\* a pool of one thread is running the task of one row while the task of
\* another row of the same page waits in the queue
C29_Witness ==
    /\ max_workers = 1
    /\ \E i, j \in 1..Len(df) :
          /\ tpc[i] = "running"
          /\ tpc[j] = "queued"
          /\ lookups[i] >= 1

\* C30: a row whose Name is empty or missing is never dispatched: no task is
\* submitted for it, no lookup is made for it, its result is never merged, and
\* so it is counted neither in rows_processed nor in rows_failed, which count
\* rows with a name only.
C30_NamelessRowSkipped ==
    LET nameless == {i \in 1..Len(df) :
                        IsNa(df[i].Name) \/ Strip(PyStr(df[i].Name)) = <<>>}
    IN  /\ \A i \in nameless :
              /\ tpc[i] = "none"
              /\ lookups[i] = 0
              /\ i \notin merged
        /\ rows_processed <= Len(df) - Cardinality(nameless)
        /\ result.rows_processed <= Len(df) - Cardinality(nameless)
        /\ result.rows_failed <= Len(df) - Cardinality(nameless)

\* C31: no limiter lock is held by a worker that sleeps waiting for capacity,
\* sleeps in backoff or runs the underlying call.
C31_NoLockHeldWhileSleepingOrCalling ==
    \A w \in Workers :
        pc[w] \in {"wait_sleep", "hit_sleep", "backoff", "in_call"}
            => rl_lock # w /\ bucket_lock # w

\* C35: every call of the wrapped operation is made in the step that follows a
\* successful consume(1) of the same attempt: the call starts only from the
\* consume of its worker, the refilled bucket held a whole token, exactly that
\* token was taken, and so calls started never exceed tokens consumed.
C35_CallOnlyAfterConsume ==
    /\ [](\A w \in Workers : calls[w] <= consumed[w])
    /\ [][\A w \in Workers :
            calls'[w] # calls[w] =>
                /\ pc[w] = "consume"
                /\ calls'[w] = calls[w] + 1
                /\ consumed'[w] = consumed[w] + 1
                /\ Refilled(tokens, last_refill, now) >= TokenUnits(1)
                /\ tokens' = Refilled(tokens, last_refill, now) - TokenUnits(1)
                /\ Len(callTimes') = Len(callTimes) + 1]_vars

\* one worker's consume was granted and its call made, the other's consume
\* was refused and no call was made for it
C35_Witness ==
    \E w, v \in Workers :
        /\ calls[w] = 1 /\ consumed[w] = 1
        /\ pc[v] = "hit_wait" /\ calls[v] = 0 /\ consumed[v] = 0

\* C32: during enrich_csv_file no step of a worker task writes the row set,
\* the statistics or the output; the row set is written only by the merge of
\* the coordinating thread, which sets the Symbol of one row selected in the
\* current page and leaves the number, the order and the other columns of the
\* rows as they were.
C32_TasksWriteNoSharedRows ==
    [][/\ (\E i \in 1..Len(df) :
              /\ tpc[i] \in {"queued", "running", "ended"}
              /\ tpc'[i] \in {"running", "ended", "done"}
              /\ <<tpc[i], attempt_num[i], lookups[i], lres[i]>>
                   # <<tpc'[i], attempt_num'[i], lookups'[i], lres'[i]>>)
          => /\ df' = df
             /\ rows_processed' = rows_processed
             /\ rows_updated' = rows_updated
             /\ output' = output
             /\ flushes' = flushes
             /\ result' = result
             /\ merged' = merged
       /\ df' # df
          => /\ epc = "collect"
             /\ Len(df') = Len(df)
             /\ \E i \in PageFirst(page)..PageLast(page) :
                   /\ Selected(df[i])
                   /\ tpc[i] = "done" /\ tpc'[i] = "merged"
                   /\ df'[i].Name = df[i].Name
                   /\ \A j \in 1..Len(df) : j # i => df'[j] = df[j]]_vars

\* a merge has written the Symbol of a row while another task of the run has
\* made a lookup and is still running
C32_Witness ==
    \E i, j \in 1..Len(df) :
        /\ tpc[i] = "merged" /\ df[i].Symbol = None
        /\ tpc[j] = "running" /\ lookups[j] >= 1

\* C34: suggest_correction(term) returns the vocabulary entry with the highest
\* case-insensitive similarity to the letters-only form of term when that
\* score is >= 0.6, the first such entry in vocabulary order among equal top
\* scores, and none when no entry reaches 0.6; the result is none or a member
\* of the vocabulary.
C34_FirstOfEqualTopScores ==
    corrected # NotReturned =>
        LET cleaned == Lower(LettersOnly(Strip(word_arg)))
            V == COMMON_COMPANY_WORDS
            score == [k \in 1..Len(V) |-> Ratio(Lower(V[k]), cleaned)]
            close == {k \in 1..Len(V) : cleaned # <<>>
                                         /\ 10 * score[k][1] >= 6 * score[k][2]}
            top == {k \in close : \A l \in close : ~RatioLess(score[k], score[l])}
        IN  IF close = {} THEN corrected = None
            ELSE corrected = Str(V[CHOOSE k \in top : \A l \in top : k <= l])

\* C34 as it holds: the entry returned has the highest score, that score is
\* >= 0.6, and among entries of equal top score it is the greatest in string
\* order; none is returned exactly when no entry reaches 0.6.
C34_GreatestOfEqualTopScores ==
    corrected # NotReturned =>
        LET cleaned == Lower(LettersOnly(Strip(word_arg)))
            V == COMMON_COMPANY_WORDS
            score == [k \in 1..Len(V) |-> Ratio(Lower(V[k]), cleaned)]
            close == {k \in 1..Len(V) : cleaned # <<>>
                                         /\ 10 * score[k][1] >= 6 * score[k][2]}
            top == {k \in close : \A l \in close : ~RatioLess(score[k], score[l])}
        IN  /\ IF close = {} THEN corrected = None
               ELSE \E k \in top :
                       /\ corrected = Str(V[k])
                       /\ \A l \in top : ~StrLess(V[k], V[l])
            /\ corrected = None \/ \E k \in 1..Len(V) : corrected = Str(V[k])
            /\ word_arg = <<"G","o","g","l","e">>
                  => corrected = Str(<<"g","o","o","g","l","e">>)
            /\ word_arg = <<"Z","z","z","z","q","q">> => corrected = None

\* "coca" and "cola" are equally similar to the term "coa", and "cola", the
\* later entry of the vocabulary, has been returned
C34_Witness ==
    /\ word_arg = <<"c","o","a">>
    /\ Ratio(<<"c","o","c","a">>, word_arg) = Ratio(<<"c","o","l","a">>, word_arg)
    /\ corrected = Str(<<"c","o","l","a">>)

\* C40: the attempt trace of lookup_symbol holds exactly one entry per lookup
\* call issued, in attempt order, each with the status success, no_results or
\* error; it is never longer than the number of calls made, which is at most 3.
C40_OneTraceEntryPerCall ==
    \A i \in 1..Len(df) :
        /\ Len(attempts[i]) = lookups[i]
        /\ Len(attempts[i]) <= max_attempts
        /\ \A n \in 1..Len(attempts[i]) :
              /\ attempts[i][n].status \in {"success", "no_results", "error"}
              /\ \A m \in 1..(n - 1) : attempts[i][m].attempt < attempts[i][n].attempt

\* C38: what a page produces does not depend on the order in which its tasks
\* complete and are merged. Each submitted row is merged exactly once; a merge
\* changes neither the row set that results once every finished task is
\* merged nor the counts that result then, so these are fixed by the per-row
\* results alone; and the flush writes the row set with every task of the
\* page merged.
C38_CompletionOrderIrrelevant ==
    /\ [](rows_processed = Cardinality(merged))
    /\ [](\A k, l \in 1..Len(futures) : futures[k] = futures[l] => k = l)
    /\ [][\A i \in 1..Len(df) :
            tpc[i] # "merged" /\ tpc'[i] = "merged" =>
                /\ tpc[i] = "done" /\ i \notin merged /\ merged' = merged \cup {i}
                /\ [k \in 1..Len(df) |->
                       IF tpc[k] = "done" THEN [df[k] EXCEPT !.Symbol = tres[k]] ELSE df[k]]
                   = [k \in 1..Len(df) |->
                       IF tpc'[k] = "done" THEN [df'[k] EXCEPT !.Symbol = tres'[k]] ELSE df'[k]]
                /\ rows_processed + Cardinality({k \in 1..Len(df) : tpc[k] = "done"})
                   = rows_processed' + Cardinality({k \in 1..Len(df) : tpc'[k] = "done"})
                /\ rows_updated
                     + Cardinality({k \in 1..Len(df) : tpc[k] = "done" /\ Truthy(tres[k])})
                   = rows_updated'
                     + Cardinality({k \in 1..Len(df) : tpc'[k] = "done" /\ Truthy(tres'[k])})]_vars
    /\ [][(rows_processed' # rows_processed \/ rows_updated' # rows_updated \/ df' # df) =>
            \E i \in 1..Len(df) : tpc[i] = "done" /\ tpc'[i] = "merged"]_vars
    /\ [][flushes' # flushes =>
            /\ \A k \in 1..Len(futures) : tpc[futures[k]] = "merged"
            /\ \A i \in PageFirst(page)..PageLast(page) :
                  tpc[i] = "merged" \/ tpc[i] = "none"
            /\ output'.rows = ToCsv(df)]_vars

\* two tasks of one page have both finished and neither is merged yet: the
\* collect loop may take them in either order
C38_Witness ==
    \E k, l \in 1..Len(futures) :
        /\ k < l
        /\ tpc[futures[k]] = "done" /\ tpc[futures[l]] = "done"
        /\ rows_processed = Cardinality(merged)

\* C37: the tokens credited to the bucket by refills never exceed refill_rate
\* times the time elapsed, also when get_bucket_status refills while another
\* thread is inside get_wait_time or consume. The bucket starts full at time
\* 0, so the tokens credited up to now are the tokens held plus the tokens
\* consumed less the capacity.
C37_NoTimeCreditedTwice ==
    tokens + TokenUnits(consumed[1] + consumed[2]) - CapacityUnits
        <= refill_rate * now

\* C36: with the workers inside execute_with_rate_limit and get_bucket_status
\* called at any time, no deadlock is reachable. RateLimiter._lock is never
\* acquired by a thread that holds the bucket lock; the holder of the bucket
\* lock waits for no lock and the holder of RateLimiter._lock waits for no
\* lock but the bucket's; a worker leaves its wait for a lock only with the
\* lock acquired; and every wait of a worker for a lock ends.
C36_NoDeadlock ==
    /\ [][\A t \in Threads :
            (rl_lock # t /\ rl_lock' = t) => (bucket_lock # t /\ bucket_lock' # t)]_vars
    /\ [](bucket_lock # 0 => pc[bucket_lock] = "hit_refill")
    /\ [](rl_lock \in Workers =>
             pc[rl_lock] \in {"wait_locked", "wait_sleep", "consume_locked"})
    /\ [](rl_lock = StatusThread => spc = "refill")
    /\ [][\A w \in Workers :
            /\ (pc[w] \in {"wait", "consume"} /\ pc'[w] # pc[w]) => rl_lock' = w
            /\ (pc[w] = "hit_wait" /\ pc'[w] # pc[w]) => bucket_lock' = w
            /\ (pc[w] \in {"wait_locked", "consume_locked"} /\ pc'[w] # pc[w])
                  => bucket_lock = 0]_vars
    /\ \A w \in Workers :
          /\ []<>(pc[w] \notin {"wait", "consume"})
          /\ []<>(pc[w] \notin {"wait_locked", "consume_locked", "hit_wait"})

\* a worker holds RateLimiter._lock and waits for the bucket lock, which the
\* other worker holds inside get_wait_time, while get_bucket_status has been
\* called
C36_Witness ==
    \E w, v \in Workers :
        /\ pc[w] \in {"wait_locked", "consume_locked"}
        /\ rl_lock = w
        /\ bucket_lock = v
        /\ status_calls > 0

\* C39: one lookup_symbol invocation makes at most 9 calls of the api and
\* consumes at most 9 tokens: at most max_attempts = 3 calls of
\* _make_api_call, each of at most retry_attempts = 3 calls of func, each call
\* of func after one token consumed.
C39_AtMostNineCalls ==
    /\ max_attempts * retry_attempts = 9
    /\ lookups[1] <= max_attempts
    /\ calls[Resolver] <= 9
    /\ consumed[Resolver] <= 9

\* lookup_symbol has made its third _make_api_call and the ninth call of the
\* api has just failed
C39_Witness ==
    /\ lookups[1] = 3
    /\ tpc[1] = "ended"
    /\ calls[Resolver] = 9
    /\ consumed[Resolver] = 9

\* C33: every execute_with_rate_limit invocation, every lookup_symbol
\* invocation and every enrich_csv_file run ends, returning or raising, when
\* every call of the api returns or fails. Attempts are bounded: the loop
\* index of execute_with_rate_limit stays below retry_attempts and that of
\* lookup_symbol at or below max_attempts. Sleeps are bounded: every step a
\* thread takes inside execute_with_rate_limit moves it forward in the order
\* of the statements of one attempt or on to the next attempt, so an attempt
\* sleeps at most once in wait_if_needed and once after a failed consume or a
\* failed call.
C33_EveryRunTerminates ==
    /\ [](\A w \in Workers : attempt[w] < retry_attempts)
    /\ [](\A i \in DOMAIN attempt_num : attempt_num[i] <= max_attempts)
    /\ [][LET Stage(p) ==
                  CASE p = "wait" -> 1
                    [] p = "wait_locked" -> 2
                    [] p = "wait_sleep" -> 3
                    [] p = "consume" -> 4
                    [] p = "consume_locked" -> 5
                    [] p \in {"hit_wait", "in_call"} -> 6
                    [] p \in {"hit_refill", "backoff"} -> 7
                    [] p = "hit_sleep" -> 8
                    [] OTHER -> 9
              Rank(a, p) == 9 * a + Stage(p)
          IN \A w \in Workers :
                (pc[w] # "idle" /\ pc'[w] # "idle" /\ pc'[w] # pc[w])
                   => Rank(attempt'[w], pc'[w]) > Rank(attempt[w], pc[w])]_vars
    /\ <>[](/\ epc = "done"
            /\ \A w \in Workers : pc[w] \in {"idle", "returned", "raised"}
            /\ \A i \in DOMAIN tpc : tpc[i] \notin {"queued", "running", "ended"})

\* enrich_single_company has returned after a lookup_symbol whose three api
\* calls each took three attempts, with time spent asleep on the way, and the
\* other thread has left execute_with_rate_limit
C33_Witness ==
    /\ epc = "done"
    /\ lookups = <<3>>
    /\ calls[Resolver] = 9
    /\ now > 0
    /\ \A w \in Workers : pc[w] \in {"idle", "returned", "raised"}

============================================================================
